---- MODULE Spec2Model ----
(***************************************************************************)
(* A model of the sparta-matching engine: the preference entities (Player, *)
(* Hospital, Project, Supervisor), the four solvers (stableMarriage,       *)
(* hospitalResident, stableRoommates, studentAllocation) taken one loop    *)
(* iteration at a time, and the post-solve checks of the game classes.     *)
(***************************************************************************)
EXTENDS Integers, Sequences, FiniteSets, TLC

\* JavaScript null / undefined
NULL == "null"

----------------------------------------------------------------------------
(* Bounds of the model *)

\* largest party size of a Stable Marriage instance
MaxSM == 3
\* number of residents of a Hospital-Resident instance
NumResidents == 3
\* largest capacity of a hospital, project or supervisor
MaxCapacity == 2
\* the loop iterations of one solve that the model follows
MaxIterations == 24
\* largest number of players of a Stable Roommates instance
MaxSR == 6
\* largest number of students of a Student Allocation instance
MaxStudents == 2
\* largest party of an input handed to a constructor
MaxParty == 2
\* longest preference list of an input handed to a constructor
MaxList == 3
\* the list lengths for which every ranking is enumerated; a longer list is
\* drawn from a sample: the rotations of the array it ranks
Exhaustive == {0, 1, 2, 3}

SuitorNames == <<"A", "B", "C", "D">>
ReviewerNames == <<"X", "Y", "Z", "W">>
ResidentNames == <<"A", "B", "C", "D">>
HospitalNames == <<"X", "Y">>
StudentNames == <<"A", "B", "C", "D">>
ProjectNames == <<"P", "Q">>
SupervisorNames == <<"U", "V">>
RoommateNames == <<"A", "B", "C", "D", "E", "F", "G", "H">>

----------------------------------------------------------------------------
(* Array helpers, with JavaScript's semantics *)

\* Array.prototype.indexOf: 0-based, -1 when absent
IndexOf(s, x) ==
  IF \E i \in 1..Len(s) : s[i] = x
  THEN (CHOOSE i \in 1..Len(s) : s[i] = x /\ \A j \in 1..(i - 1) : s[j] # x) - 1
  ELSE -1

\* Array.prototype.includes
Includes(s, x) == \E i \in 1..Len(s) : s[i] = x

\* a slice that starts one place early
Slice_oneEarly(s, from) == SubSeq(s, from, Len(s))

\* Array.prototype.slice(from) with a 0-based start
Slice(s, from) == SubSeq(s, from + 1, Len(s))

\* the elements of an array
Range(s) == {s[i] : i \in 1..Len(s)}

\* every ordering of the members of S
Perms(S) == {f \in [1..Cardinality(S) -> S] : \A i, j \in 1..Cardinality(S) : f[i] = f[j] => i = j}

\* the rotations of an array
Rotations(s) == {[i \in 1..Len(s) |-> s[((i + k - 1) % Len(s)) + 1]] : k \in 0..(Len(s) - 1)}

\* the rankings of the members of array s an instance may use
Rankings(s) == IF Len(s) \in Exhaustive THEN Perms(Range(s)) ELSE Rotations(s)

----------------------------------------------------------------------------
VARIABLES
  game,          \* which game class the object is: "SM", "HR", "SR", "SA"
  party,         \* the game's party arrays (suitors, reviewers, ...)
  prefs,         \* prefs of every entity
  originalPrefs, \* _originalPrefs of every entity
  matching,      \* matching of every entity
  capacity,      \* capacity of every capacitated entity
  free,          \* the worklist of the running solver
  optimal,       \* the optimal side of the running or last solve
  pc,            \* "ready", "loop", "done", "threw"
  result,        \* the Map returned by the last solve
  solved,        \* the results of earlier games built from the same input
  iterations,    \* the loop iterations the running or last solve has made
  caller,        \* the entities the caller passed to the constructor
  blockingPairs, \* the game's blockingPairs: <<>> while null, <<list>> once assigned
  returned       \* <<>> before any checkStability call, then <<its last return value>>

vars == <<game, party, prefs, originalPrefs, matching, capacity, free, optimal, pc, result, solved, iterations, caller,
         blockingPairs, returned>>

----------------------------------------------------------------------------
(* the caller's entities and the game's clones *)

\* the entities as the caller built them: the lists set by setPrefs, nobody matched
Supplied(pa, pr, m, cap) ==
  [party |-> pa, prefs |-> pr, originalPrefs |-> pr, matching |-> m, capacity |-> cap,
   options |-> [clean |-> FALSE]]

\* a constructor that keeps the caller's entities as the game's own
CallerAfter_aliased(pr, m) == [caller EXCEPT !.prefs = pr, !.matching = m]

\* the constructors deep copy: the game holds clones, so a step that leaves
\* the game's entities with lists pr and matches m writes no caller entity
CallerAfter(pr, m) == caller

----------------------------------------------------------------------------
(* Player *)

\* a _forget that leaves the list as it is
Player_forget_nothing(pr, p, other) == pr

\* Player._forget
Player_forget(pr, p, other) == [pr EXCEPT ![p] = SelectSeq(@, LAMBDA q : q # other)]

\* a prefers that compares positions in the current list
prefers_current(p, player, other) == IndexOf(prefs[p], player) < IndexOf(prefs[p], other)

\* Player.prefers
prefers(p, player, other) == IndexOf(originalPrefs[p], player) < IndexOf(originalPrefs[p], other)

\* Player._match
Player_match(m, p, other) == [m EXCEPT ![p] = other]

\* Player._unmatch
Player_unmatch(m, p) == [m EXCEPT ![p] = NULL]

\* a getFavourite that takes the other end of the list
getFavourite_last(pr, p) == IF Len(pr[p]) = 0 THEN NULL ELSE pr[p][Len(pr[p])]

\* Player.getFavourite: prefs[0], undefined on an empty list
getFavourite(pr, p) == IF Len(pr[p]) = 0 THEN NULL ELSE pr[p][1]

\* a getSuccessors that slices one place early and so includes the match
getSuccessors_fromMatch(pr, m, p) ==
  IF m[p] = NULL THEN <<>> ELSE Slice(pr[p], IndexOf(pr[p], m[p]))

\* Player.getSuccessors
getSuccessors(pr, m, p) ==
  IF m[p] = NULL THEN <<>> ELSE Slice(pr[p], IndexOf(pr[p], m[p]) + 1)

\* Player.checkIfMatchIsUnacceptable: TRUE when an issue is reported
checkIfMatchIsUnacceptable(p, unmatchedOkay) ==
  \/ matching[p] = NULL /\ ~unmatchedOkay
  \/ matching[p] # NULL /\ ~Includes(prefs[p], matching[p])

----------------------------------------------------------------------------
(* algorithms/util *)

\* a deletePair that forgets on the side of player only
deletePair_oneSided(pr, player, other) == Player_forget(pr, player, other)

\* deletePair
deletePair(pr, player, other) == Player_forget(Player_forget(pr, player, other), other, player)

\* a matchPair that records the match on the side of player only
matchPair_oneWay(m, player, other) == Player_match(m, player, other)

\* matchPair
matchPair(m, player, other) == Player_match(Player_match(m, player, other), other, player)

\* for (const successor of successors) deletePair(successor, reviewer)
RECURSIVE deleteSuccessors(_, _, _)
deleteSuccessors(pr, successors, reviewer) ==
  IF successors = <<>> THEN pr
  ELSE deleteSuccessors(deletePair(pr, Head(successors), reviewer), Tail(successors), reviewer)

----------------------------------------------------------------------------
(* Stable Marriage *)

\* an unmatchPair that frees the reviewer only
SM_unmatchPair_reviewerOnly(m, suitor, reviewer) == Player_unmatch(m, reviewer)

\* stable-marriage unmatchPair
SM_unmatchPair(m, suitor, reviewer) == Player_unmatch(Player_unmatch(m, suitor), reviewer)

SMPlayers == Range(party.suitors) \cup Range(party.reviewers)

\* a proposer party that ignores the optimal side
SM_proposers_ignoreOptimal(o) == party.suitors

\* stableMarriage: the proposers for an optimal side
SM_proposers(o) == IF o = "reviewer" THEN party.reviewers ELSE party.suitors

\* new StableMarriage(suitors, reviewers) on input the constructor accepts
SMInit ==
  /\ game = "SM"
  /\ \E n \in 1..MaxSM :
       LET ss == SubSeq(SuitorNames, 1, n)
           rs == SubSeq(ReviewerNames, 1, n)
       IN /\ party = [suitors |-> ss, reviewers |-> rs]
          /\ \E sp \in [Range(ss) -> Rankings(rs)], rp \in [Range(rs) -> Rankings(ss)] :
               \* beyond the exhaustive sizes the sample has the first suitor
               \* rank the reviewers in the order of their array
               /\ n \in Exhaustive \/ sp[ss[1]] = rs
               /\ prefs = [p \in Range(ss) \cup Range(rs) |-> IF p \in Range(ss) THEN sp[p] ELSE rp[p]]
  /\ originalPrefs = prefs
  /\ matching = [p \in DOMAIN prefs |-> NULL]
  /\ capacity = <<>>
  /\ free = <<>>
  /\ optimal = NULL
  /\ pc = "ready"
  /\ result = <<>>
  /\ solved = {}
  /\ iterations = 0
  /\ caller = Supplied(party, prefs, matching, capacity)
  /\ blockingPairs = <<>>
  /\ returned = <<>>

\* StableMarriage.solve up to the first loop test of stableMarriage
SMSolve ==
  /\ game = "SM" /\ pc = "ready"
  /\ \E o \in {"suitor", "reviewer"} :
       /\ optimal' = o
       /\ free' = SM_proposers(o)
  /\ pc' = "loop"
  /\ iterations' = 0
  /\ UNCHANGED <<game, party, prefs, originalPrefs, matching, capacity, result, solved>>
  /\ caller' = CallerAfter(prefs', matching')
  /\ UNCHANGED <<blockingPairs, returned>>

\* one iteration of the while loop of stableMarriage
SMStep ==
  /\ game = "SM" /\ pc = "loop" /\ Len(free) > 0
  /\ iterations < MaxIterations
  /\ iterations' = iterations + 1
  /\ LET suitor == free[Len(free)]
         popped == SubSeq(free, 1, Len(free) - 1)
         reviewer == getFavourite(prefs, suitor)
     IN IF reviewer = NULL
        THEN \* reviewer.matching of undefined throws
             /\ pc' = "threw"
             /\ free' = popped
             /\ UNCHANGED <<prefs, matching>>
        ELSE LET currentMatch == matching[reviewer]
                 m1 == IF currentMatch # NULL THEN SM_unmatchPair(matching, currentMatch, reviewer) ELSE matching
                 f1 == IF currentMatch # NULL THEN Append(popped, currentMatch) ELSE popped
                 m2 == matchPair(m1, suitor, reviewer)
                 successors == getSuccessors(prefs, m2, reviewer)
             IN /\ matching' = m2
                /\ free' = f1
                /\ prefs' = deleteSuccessors(prefs, successors, reviewer)
                /\ pc' = "loop"
  /\ UNCHANGED <<game, party, originalPrefs, capacity, optimal, result, solved>>
  /\ caller' = CallerAfter(prefs', matching')
  /\ UNCHANGED <<blockingPairs, returned>>

\* the loop of stableMarriage ends: build the result map, wrap it and return
SMReturn ==
  /\ game = "SM" /\ pc = "loop" /\ Len(free) = 0
  /\ result' = [s \in Range(party.suitors) |-> matching[s]]
  /\ pc' = "done"
  /\ UNCHANGED <<game, party, prefs, originalPrefs, matching, capacity, free, optimal, solved, iterations>>
  /\ caller' = CallerAfter(prefs', matching')
  /\ UNCHANGED <<blockingPairs, returned>>

\* new Player(name), new Hospital(name, capacity), ...: a clone starts unmatched
Unmatched == [p \in DOMAIN matching |-> IF p \in DOMAIN capacity THEN <<>> ELSE NULL]

\* a constructor that hands the second game the entities of the first
Constructor_prefs_shared(built) == prefs

\* the lists the constructor's clones of the caller's entities get
\* (clone.setPrefs(clonedPrefs)): a game built before the first one was
\* solved copied the lists as they were supplied, one built after it copies
\* the lists the caller's entities hold now
Constructor_prefs(built) == IF built = "before" THEN originalPrefs ELSE caller.prefs

\* a second game is constructed from the same caller-supplied players,
\* before or after the first one is solved, and is the one solved next
NewGame ==
  /\ pc = "done"
  /\ solved = {}
  /\ solved' = {[optimal |-> optimal, result |-> result, matching |-> matching]}
  /\ \E built \in {"before", "after"} : prefs' = Constructor_prefs(built)
  /\ originalPrefs' = prefs'
  /\ matching' = Unmatched
  /\ free' = <<>>
  /\ optimal' = NULL
  /\ result' = <<>>
  /\ pc' = "ready"
  /\ iterations' = 0
  /\ UNCHANGED <<game, party, capacity>>
  /\ caller' = CallerAfter(prefs', matching')
  /\ blockingPairs' = <<>>
  /\ returned' = <<>>

SMNext == SMSolve \/ SMStep \/ SMReturn \/ NewGame

SpecSM == SMInit /\ [][SMNext]_vars

----------------------------------------------------------------------------
(* StableMarriage: the post-solve checks *)

\* the (suitor, reviewer) pairs in the order of the nested loops
SM_allPairs ==
  LET n == Len(party.reviewers)
  IN [k \in 1..(Len(party.suitors) * n) |->
        <<party.suitors[((k - 1) \div n) + 1], party.reviewers[((k - 1) % n) + 1]>>]

\* StableMarriage.checkStability: the list it stores in blockingPairs
SM_blockingPairs ==
  SelectSeq(SM_allPairs, LAMBDA sr :
    /\ matching[sr[1]] # NULL
    /\ matching[sr[2]] # NULL
    /\ prefers(sr[1], sr[2], matching[sr[1]])
    /\ prefers(sr[2], sr[1], matching[sr[2]]))

\* StableMarriage.checkStability: the value it returns
SM_checkStability == Len(SM_blockingPairs) = 0

\* StableMarriage.checkForUnmatchedPlayers: the players it reports
SM_checkForUnmatchedPlayers == {p \in SMPlayers : checkIfMatchIsUnacceptable(p, FALSE)}

\* StableMarriage.checkForPlayersNotInMatching: the players it reports
SM_checkForPlayersNotInMatching ==
  {p \in SMPlayers : p \notin DOMAIN result /\ \A k \in DOMAIN result : result[k] # p}

\* StableMarriage.checkForInconsistentMatches: the suitors it reports
SM_checkForInconsistentMatches == {s \in DOMAIN result : matching[s] # result[s]}

\* StableMarriage.checkValidity: TRUE when it returns true, FALSE when it throws
SM_checkValidity ==
  /\ SM_checkForUnmatchedPlayers = {}
  /\ SM_checkForPlayersNotInMatching = {}
  /\ SM_checkForInconsistentMatches = {}

----------------------------------------------------------------------------
(* Stable Marriage: the theory the claims refer to *)

\* the position of q in the original list of p, from 1; 0 when p never ranked q
Rank(p, q) ==
  IF \E i \in 1..Len(originalPrefs[p]) : originalPrefs[p][i] = q
  THEN CHOOSE i \in 1..Len(originalPrefs[p]) : originalPrefs[p][i] = q
  ELSE 0

\* p ranks q, and strictly ahead of its partner under the one-to-one matching M
\* (being unmatched is worse than any ranked partner)
StrictlyPrefers(M, p, q) ==
  /\ Rank(p, q) > 0
  /\ M[p] # q
  /\ (M[p] = NULL \/ Rank(p, q) < Rank(p, M[p]))

\* the one-to-one matchings of suitors to reviewers, as a map on all players
SM_perfectMatchings ==
  LET S == Range(party.suitors)
      n == Len(party.suitors)
  IN {[p \in SMPlayers |->
         IF p \in S THEN f[IndexOf(party.suitors, p) + 1]
         ELSE party.suitors[CHOOSE i \in 1..n : f[i] = p]] :
      f \in Perms(Range(party.reviewers))}

\* (s, r) blocks the matching M
SM_blocks(M, s, r) == StrictlyPrefers(M, s, r) /\ StrictlyPrefers(M, r, s)

\* M has no blocking pair
SM_stable(M) == \A s \in Range(party.suitors), r \in Range(party.reviewers) : ~SM_blocks(M, s, r)

\* the stable matchings of the instance
SM_stableMatchings == {M \in SM_perfectMatchings : SM_stable(M)}

\* the party an optimal side names, and the other one
SM_side(o) == IF o = "reviewer" THEN Range(party.reviewers) ELSE Range(party.suitors)
SM_otherSide(o) == IF o = "reviewer" THEN Range(party.suitors) ELSE Range(party.reviewers)

----------------------------------------------------------------------------
(* Claims on Stable Marriage *)

\* C1: after a first solve of a StableMarriage game there is no blocking pair
\* with respect to the original lists, checkStability() returns true and the
\* blockingPairs it records is the empty list.
C1_NoBlockingPair ==
  (game = "SM" /\ pc = "done") =>
    /\ SM_stable(matching)
    /\ SM_checkStability
    /\ SM_blockingPairs = <<>>

\* a three-a-side game is solved in which some proposer was turned away
C1_Witness ==
  /\ game = "SM" /\ pc = "done" /\ Len(party.suitors) = 3
  /\ \E p \in SM_side(optimal) : matching[p] # originalPrefs[p][1]
  /\ SM_checkStability

\* C2: a first solve ends with every suitor and reviewer matched, mutually and
\* one-to-one, the returned map takes every suitor to its matching, and
\* checkValidity() returns true.
C2_PerfectMatching ==
  (game = "SM" /\ pc = "done") =>
    /\ \A p \in SMPlayers : matching[p] # NULL
    /\ \A s \in Range(party.suitors), r \in Range(party.reviewers) :
         matching[s] = r <=> matching[r] = s
    /\ \A s, t \in Range(party.suitors) : matching[s] = matching[t] => s = t
    /\ DOMAIN result = Range(party.suitors)
    /\ \A s \in Range(party.suitors) : result[s] = matching[s] /\ result[s] \in Range(party.reviewers)
    /\ SM_checkValidity

\* a three-a-side reviewer-optimal game is solved after a displacement
C2_Witness ==
  /\ game = "SM" /\ pc = "done" /\ Len(party.suitors) = 3
  /\ optimal = "reviewer"
  /\ \E p \in Range(party.reviewers) : matching[p] # originalPrefs[p][1]
  /\ SM_checkValidity

\* C3: the matching returned for optimal side P gives every member of P its
\* best partner among all stable matchings and every member of the other party
\* its worst one; and of two fresh games solved for the two sides, no suitor
\* prefers the reviewer-optimal partner and no reviewer the suitor-optimal one.
C3_Optimal ==
  (game = "SM" /\ pc = "done") =>
    /\ \A M \in SM_stableMatchings :
         /\ \A p \in SM_side(optimal) : Rank(p, matching[p]) <= Rank(p, M[p])
         /\ \A q \in SM_otherSide(optimal) : Rank(q, matching[q]) >= Rank(q, M[q])
    /\ \A g \in solved :
         /\ \A p \in SM_side(optimal) : Rank(p, matching[p]) <= Rank(p, g.matching[p])
         /\ \A q \in SM_side(g.optimal) : Rank(q, g.matching[q]) <= Rank(q, matching[q])

\* both sides were solved on fresh games of an instance with more than one
\* stable matching, and the two results differ
C3_Witness ==
  /\ game = "SM" /\ pc = "done"
  /\ \E g \in solved : g.optimal # optimal /\ g.matching # matching
  /\ Cardinality(SM_stableMatchings) > 2

----------------------------------------------------------------------------
(* Hospital *)

\* the value of a removed from array s
Without(s, a) == SelectSeq(s, LAMBDA q : q # a)

\* array s with its first occurrence of a spliced out
SpliceOut(s, a) ==
  LET idx == IndexOf(s, a)
  IN IF idx = -1 THEN s ELSE SubSeq(s, 1, idx) \o SubSeq(s, idx + 2, Len(s))

\* insert a into the sorted array s after every entry whose key is not larger
RECURSIVE InsertByKey(_, _, _)
InsertByKey(s, a, keys) ==
  IF s = <<>> THEN <<a>>
  ELSE IF IndexOf(keys, a) < IndexOf(keys, Head(s)) THEN <<a>> \o s
  ELSE <<Head(s)>> \o InsertByKey(Tail(s), a, keys)

\* a sort that leaves the array in the order it was pushed
SortByIndex_asPushed(s, keys) == s

\* Array.prototype.sort((a, b) => keys.indexOf(a) - keys.indexOf(b)), a stable sort
RECURSIVE SortByIndex(_, _)
SortByIndex(s, keys) ==
  IF s = <<>> THEN <<>>
  ELSE InsertByKey(SortByIndex(SubSeq(s, 1, Len(s) - 1), keys), s[Len(s)], keys)

\* a _forget that leaves the hospital's list as it is
Hospital_forget_nothing(pr, h, other) == pr

\* Hospital._forget
Hospital_forget(pr, h, other) == [pr EXCEPT ![h] = Without(@, other)]

\* a Hospital._match that pushes without sorting
Hospital_match_unsorted(m, pr, h, resident) == [m EXCEPT ![h] = Append(@, resident)]

\* Hospital._match
Hospital_match(m, pr, h, resident) == [m EXCEPT ![h] = SortByIndex(Append(@, resident), pr[h])]

\* Hospital._unmatch
Hospital_unmatch(m, h, resident) == [m EXCEPT ![h] = Without(@, resident)]

\* Hospital.getFavourite
Hospital_getFavourite(pr, m, h) ==
  LET outside == SelectSeq(pr[h], LAMBDA q : ~Includes(m[h], q))
  IN IF outside = <<>> THEN NULL ELSE outside[1]

\* a getWorstMatch that takes the other end of the match list
Hospital_getWorstMatch_first(m, h) == IF Len(m[h]) = 0 THEN NULL ELSE m[h][1]

\* Hospital.getWorstMatch
Hospital_getWorstMatch(m, h) == IF Len(m[h]) = 0 THEN NULL ELSE m[h][Len(m[h])]

\* a getSuccessors that starts one place late and so spares the player
\* ranked right after the worst match
Hospital_getSuccessors_skipOne(pr, m, h) ==
  LET worst == Hospital_getWorstMatch(m, h)
  IN IF worst = NULL THEN <<>> ELSE Slice(pr[h], IndexOf(pr[h], worst) + 2)

\* Hospital.getSuccessors
Hospital_getSuccessors(pr, m, h) ==
  LET worst == Hospital_getWorstMatch(m, h)
  IN IF worst = NULL THEN <<>> ELSE Slice(pr[h], IndexOf(pr[h], worst) + 1)

\* Hospital.checkIfMatchIsUnacceptable: TRUE when an issue is reported
Hospital_checkIfMatchIsUnacceptable(h) == \E i \in 1..Len(matching[h]) : ~Includes(prefs[h], matching[h][i])

\* Hospital.checkIfOversubscribed: TRUE when an issue is reported
Hospital_checkIfOversubscribed(h) == Len(matching[h]) > capacity[h]

----------------------------------------------------------------------------
(* Hospital-Resident *)

\* an unmatchPair that leaves the resident in the hospital's match list
HR_unmatchPair_residentOnly(m, resident, hospital) == Player_unmatch(m, resident)

\* hospital-resident unmatchPair
HR_unmatchPair(m, resident, hospital) == Hospital_unmatch(Player_unmatch(m, resident), hospital, resident)

\* matchPair on a (resident, hospital) pair
HR_matchPair(m, pr, resident, hospital) == Hospital_match(Player_match(m, resident, hospital), pr, hospital, resident)

\* a deletePair that forgets on the side of the hospital only
HR_deletePair_hospitalOnly(pr, hospital, resident) == Hospital_forget(pr, hospital, resident)

\* deletePair on a pair of a hospital and a resident
HR_deletePair(pr, hospital, resident) == Player_forget(Hospital_forget(pr, hospital, resident), resident, hospital)

\* a checkAvailable that ignores the capacity
checkAvailable_anyCapacity(pr, m, hospital) ==
  Len(SelectSeq(pr[hospital], LAMBDA q : ~Includes(m[hospital], q))) > 0

\* hospital-resident checkAvailable
checkAvailable(pr, m, hospital) ==
  /\ Len(m[hospital]) < capacity[hospital]
  /\ Len(SelectSeq(pr[hospital], LAMBDA q : ~Includes(m[hospital], q))) > 0

\* a fullness test that lets a full hospital through
HR_atCapacity_over(m, hospital) == Len(m[hospital]) > capacity[hospital]

\* residentOptimal: hospital.matching.length === hospital.capacity
HR_atCapacity(m, hospital) == Len(m[hospital]) = capacity[hospital]

\* a dispatch that takes the two directions for each other
HR_direction_swapped(o) == IF o = "resident" THEN "hospitalOptimal" ELSE "residentOptimal"

\* hospitalResident: the solver run for an optimal side
HR_direction(o) == IF o = "resident" THEN "residentOptimal" ELSE "hospitalOptimal"

\* residentOptimal: the loop over the successors of a hospital
RECURSIVE HR_residentSuccessors(_, _, _, _)
HR_residentSuccessors(pr, fr, successors, hospital) ==
  IF successors = <<>> THEN [prefs |-> pr, free |-> fr]
  ELSE LET successor == Head(successors)
           pr1 == HR_deletePair(pr, hospital, successor)
           fr1 == IF Len(pr1[successor]) = 0 /\ Includes(fr, successor) THEN SpliceOut(fr, successor) ELSE fr
       IN HR_residentSuccessors(pr1, fr1, Tail(successors), hospital)

\* hospitalOptimal: the loop over the successors of a resident
RECURSIVE HR_hospitalSuccessors(_, _, _, _, _)
HR_hospitalSuccessors(pr, m, fr, successors, resident) ==
  IF successors = <<>> THEN [prefs |-> pr, free |-> fr]
  ELSE LET successor == Head(successors)
           pr1 == HR_deletePair(pr, successor, resident)
           fr1 == IF ~checkAvailable(pr1, m, successor) /\ Includes(fr, successor) THEN SpliceOut(fr, successor) ELSE fr
       IN HR_hospitalSuccessors(pr1, m, fr1, Tail(successors), resident)

HRResidents == Range(party.residents)
HRHospitals == Range(party.hospitals)

\* the sub-arrays of s, one for each set of its members
SubArrays(s) == {SelectSeq(s, LAMBDA q : q \in T) : T \in SUBSET Range(s)}

\* the duplicate-free rankings of some members of array s
PartialRankings(s) == UNION {Rankings(t) : t \in SubArrays(s)}

\* new HospitalResident(residents, hospitals) on input without duplicate or
\* unreciprocated rankings and with capacities of at least one
HRInit ==
  /\ game = "HR"
  /\ party = [residents |-> SubSeq(ResidentNames, 1, NumResidents), hospitals |-> HospitalNames]
  /\ \E rp \in [HRResidents -> PartialRankings(party.hospitals)],
        hp \in [HRHospitals -> PartialRankings(party.residents)] :
       /\ \A r \in HRResidents, h \in HRHospitals : Includes(rp[r], h) <=> Includes(hp[h], r)
       /\ prefs = [p \in HRResidents \cup HRHospitals |-> IF p \in HRResidents THEN rp[p] ELSE hp[p]]
  /\ originalPrefs = prefs
  /\ capacity \in [HRHospitals -> 1..MaxCapacity]
  /\ matching = [p \in DOMAIN prefs |-> IF p \in HRHospitals THEN <<>> ELSE NULL]
  /\ free = <<>>
  /\ optimal = NULL
  /\ pc = "ready"
  /\ result = <<>>
  /\ solved = {}
  /\ iterations = 0
  /\ caller = Supplied(party, prefs, matching, capacity)
  /\ blockingPairs = <<>>
  /\ returned = <<>>

\* HospitalResident.solve up to the first loop test of the solver
HRSolve ==
  /\ game = "HR" /\ pc = "ready"
  /\ \E o \in {"resident", "hospital"} :
       /\ optimal' = o
       /\ free' = IF HR_direction(o) = "residentOptimal" THEN party.residents ELSE party.hospitals
  /\ pc' = "loop"
  /\ iterations' = 0
  /\ UNCHANGED <<game, party, prefs, originalPrefs, matching, capacity, result, solved>>
  /\ caller' = CallerAfter(prefs', matching')
  /\ UNCHANGED <<blockingPairs, returned>>

\* one iteration of the while loop of residentOptimal
HRResidentStep ==
  /\ game = "HR" /\ pc = "loop" /\ HR_direction(optimal) = "residentOptimal" /\ Len(free) > 0
  /\ iterations < MaxIterations
  /\ iterations' = iterations + 1
  /\ LET resident == free[Len(free)]
         popped == SubSeq(free, 1, Len(free) - 1)
     IN IF Len(prefs[resident]) = 0
        THEN /\ free' = popped
             /\ UNCHANGED <<prefs, matching, pc>>
        ELSE LET hospital == getFavourite(prefs, resident)
                 full == HR_atCapacity(matching, hospital)
                 worst == Hospital_getWorstMatch(matching, hospital)
             IN IF full /\ worst = NULL
                THEN \* unmatchPair on a null resident throws
                     /\ pc' = "threw"
                     /\ free' = popped
                     /\ UNCHANGED <<prefs, matching>>
                ELSE LET m1 == IF full THEN HR_unmatchPair(matching, worst, hospital) ELSE matching
                         f1 == IF full THEN Append(popped, worst) ELSE popped
                     IN \E m2 \in {HR_matchPair(m1, prefs, resident, hospital)} :
                        \E after \in {IF HR_atCapacity(m2, hospital)
                                      THEN HR_residentSuccessors(prefs, f1, Hospital_getSuccessors(prefs, m2, hospital), hospital)
                                      ELSE [prefs |-> prefs, free |-> f1]} :
                        /\ matching' = m2
                        /\ prefs' = after.prefs
                        /\ free' = after.free
                        /\ pc' = "loop"
  /\ UNCHANGED <<game, party, originalPrefs, capacity, optimal, result, solved>>
  /\ caller' = CallerAfter(prefs', matching')
  /\ UNCHANGED <<blockingPairs, returned>>

\* one iteration of the while loop of hospitalOptimal
HRHospitalStep ==
  /\ game = "HR" /\ pc = "loop" /\ HR_direction(optimal) = "hospitalOptimal" /\ Len(free) > 0
  /\ iterations < MaxIterations
  /\ iterations' = iterations + 1
  /\ LET hospital == free[Len(free)]
         popped == SubSeq(free, 1, Len(free) - 1)
         resident == Hospital_getFavourite(prefs, matching, hospital)
     IN IF resident = NULL
        THEN /\ free' = popped
             /\ UNCHANGED <<prefs, matching>>
        ELSE LET currentMatch == matching[resident]
                 m1 == IF currentMatch # NULL THEN HR_unmatchPair(matching, resident, currentMatch) ELSE matching
                 f1 == IF currentMatch # NULL /\ ~Includes(popped, currentMatch) THEN Append(popped, currentMatch) ELSE popped
             IN \E m2 \in {HR_matchPair(m1, prefs, resident, hospital)} :
                \E f2 \in {IF checkAvailable(prefs, m2, hospital) THEN Append(f1, hospital) ELSE f1} :
                \E after \in {HR_hospitalSuccessors(prefs, m2, f2, getSuccessors(prefs, m2, resident), resident)} :
                /\ matching' = m2
                /\ prefs' = after.prefs
                /\ free' = after.free
  /\ UNCHANGED <<game, party, originalPrefs, capacity, optimal, result, solved, pc>>
  /\ caller' = CallerAfter(prefs', matching')
  /\ UNCHANGED <<blockingPairs, returned>>

\* the loop of the solver ends: build the result map, wrap it and return
HRReturn ==
  /\ game = "HR" /\ pc = "loop" /\ Len(free) = 0
  /\ result' = [h \in HRHospitals |-> matching[h]]
  /\ pc' = "done"
  /\ UNCHANGED <<game, party, prefs, originalPrefs, matching, capacity, free, optimal, solved, iterations>>
  /\ caller' = CallerAfter(prefs', matching')
  /\ UNCHANGED <<blockingPairs, returned>>

HRNext == HRSolve \/ HRResidentStep \/ HRHospitalStep \/ HRReturn \/ NewGame

SpecHR == HRInit /\ [][HRNext]_vars

----------------------------------------------------------------------------
(* HospitalResident: the post-solve checks *)

\* the (resident, hospital) pairs in the order of the nested loops
HR_allPairs ==
  LET n == Len(party.hospitals)
  IN [k \in 1..(Len(party.residents) * n) |->
        <<party.residents[((k - 1) \div n) + 1], party.hospitals[((k - 1) % n) + 1]>>]

\* checkMutualPreference
checkMutualPreference(resident, hospital) ==
  Includes(prefs[hospital], resident) /\ Includes(prefs[resident], hospital)

\* checkResidentUnhappy
checkResidentUnhappy(resident, hospital) ==
  matching[resident] = NULL \/ prefers(resident, hospital, matching[resident])

\* checkHospitalUnhappy
checkHospitalUnhappy(resident, hospital) ==
  \/ Len(matching[hospital]) < capacity[hospital]
  \/ \E i \in 1..Len(matching[hospital]) : prefers(hospital, resident, matching[hospital][i])

\* HospitalResident.checkStability: the list it stores in blockingPairs
HR_blockingPairs ==
  SelectSeq(HR_allPairs, LAMBDA rh :
    /\ checkMutualPreference(rh[1], rh[2])
    /\ checkResidentUnhappy(rh[1], rh[2])
    /\ checkHospitalUnhappy(rh[1], rh[2]))

\* HospitalResident.checkStability: the value it returns
HR_checkStability == Len(HR_blockingPairs) = 0

----------------------------------------------------------------------------
(* Hospital-Resident: the theory the claims refer to *)

\* r and h rank each other, r is not matched to h, r is unmatched or prefers h
\* to its hospital, and h has a free place or prefers r to one of its matches
HR_blocks(r, h) ==
  /\ Rank(r, h) > 0 /\ Rank(h, r) > 0
  /\ matching[r] # h
  /\ (matching[r] = NULL \/ Rank(r, h) < Rank(r, matching[r]))
  /\ \/ Len(matching[h]) < capacity[h]
     \/ \E i \in 1..Len(matching[h]) : Rank(h, r) < Rank(h, matching[h][i])

----------------------------------------------------------------------------
(* Claims on Hospital-Resident *)

\* C4: after solve('resident') and after solve('hospital') on an instance with
\* duplicate-free, reciprocated lists and capacities of at least one there is
\* no blocking pair, and checkStability() returns true.
C4_NoBlockingPair ==
  (game = "HR" /\ pc = "done") =>
    /\ \A r \in HRResidents, h \in HRHospitals : ~HR_blocks(r, h)
    /\ HR_checkStability

\* a game is solved in which a hospital is full, a resident who ranked a
\* hospital is left unmatched and another did not get a first choice
C4_Witness ==
  /\ game = "HR" /\ pc = "done"
  /\ \E h \in HRHospitals : Len(matching[h]) = capacity[h]
  /\ \E r \in HRResidents : matching[r] = NULL /\ Len(originalPrefs[r]) > 0
  /\ \E r \in HRResidents : matching[r] # NULL /\ matching[r] # originalPrefs[r][1]
  /\ HR_checkStability

\* C5: at every loop-iteration boundary of residentOptimal and hospitalOptimal,
\* and in the returned matching, no hospital holds more matches than its
\* capacity.
C5_WithinCapacity ==
  (game = "HR" /\ pc \in {"loop", "done"}) =>
    /\ \A h \in HRHospitals : Len(matching[h]) <= capacity[h]
    /\ pc = "done" => \A h \in HRHospitals : Len(result[h]) <= capacity[h]

\* inside residentOptimal a resident is waiting to propose to a full hospital
C5_Witness ==
  /\ game = "HR" /\ pc = "loop" /\ optimal = "resident" /\ Len(free) > 0
  /\ Len(prefs[free[Len(free)]]) > 0
  /\ HR_atCapacity(matching, getFavourite(prefs, free[Len(free)]))

\* C6: of two fresh games solved for the two sides, every resident matched by
\* solve('hospital') is matched by solve('resident') to the same hospital or
\* one it prefers, and a resident left unmatched by solve('resident') is left
\* unmatched by solve('hospital').
C6_ResidentsPreferResidentOptimal ==
  (game = "HR" /\ pc = "done") =>
    \A g \in solved :
      LET ro == IF optimal = "resident" THEN matching ELSE g.matching
          ho == IF optimal = "resident" THEN g.matching ELSE matching
      IN \A r \in HRResidents :
           /\ ho[r] # NULL => (ro[r] # NULL /\ Rank(r, ro[r]) <= Rank(r, ho[r]) /\ Rank(r, ro[r]) > 0)
           /\ ro[r] = NULL => ho[r] = NULL

\* both sides were solved on fresh games and some resident does strictly
\* better under solve('resident')
C6_Witness ==
  /\ game = "HR" /\ pc = "done"
  /\ \E g \in solved :
       /\ g.optimal # optimal
       /\ LET ro == IF optimal = "resident" THEN matching ELSE g.matching
              ho == IF optimal = "resident" THEN g.matching ELSE matching
          IN \E r \in HRResidents : ho[r] # NULL /\ ro[r] # ho[r]

----------------------------------------------------------------------------
(* Stable Roommates *)

SRPlayers == Range(party.players)

\* the number of occurrences of a in array s
Count(s, a) == Cardinality({i \in 1..Len(s) : s[i] = a})

\* firstPhase: the loop over the successors of the favourite
RECURSIVE SR_firstPhaseSuccessors(_, _, _, _)
SR_firstPhaseSuccessors(pr, fr, successors, favourite) ==
  IF successors = <<>> THEN [prefs |-> pr, free |-> fr]
  ELSE LET successor == Head(successors)
           pr1 == deletePair(pr, successor, favourite)
           fr1 == IF Len(pr1[successor]) = 0 /\ Includes(fr, successor) THEN SpliceOut(fr, successor) ELSE fr
       IN SR_firstPhaseSuccessors(pr1, fr1, Tail(successors), favourite)

\* locateAllOrNothingCycle: the while loop, from the state (lasts, seconds, current)
RECURSIVE SR_traceCycle(_, _, _, _)
SR_traceCycle(pr, lasts, seconds, current) ==
  LET secondBest == IF Len(pr[current]) >= 2 THEN pr[current][2] ELSE NULL
      theirWorst == IF secondBest = NULL \/ Len(pr[secondBest]) = 0 THEN NULL
                    ELSE pr[secondBest][Len(pr[secondBest])]
  IN IF secondBest = NULL \/ theirWorst = NULL
     THEN [lasts |-> lasts, seconds |-> seconds, current |-> current]
     ELSE LET lasts1 == Append(lasts, theirWorst)
              seconds1 == Append(seconds, secondBest)
          IN IF Count(lasts1, theirWorst) > 1
             THEN [lasts |-> lasts1, seconds |-> seconds1, current |-> theirWorst]
             ELSE SR_traceCycle(pr, lasts1, seconds1, theirWorst)

\* locateAllOrNothingCycle that keeps the tail leading into the cycle
locateAllOrNothingCycle_withTail(pr, player) ==
  LET t == SR_traceCycle(pr, <<player>>, <<>>, player)
  IN [k \in 1..(Len(t.lasts) - 1) |-> <<t.lasts[1 + k], t.seconds[k]>>]

\* locateAllOrNothingCycle
locateAllOrNothingCycle(pr, player) ==
  LET t == SR_traceCycle(pr, <<player>>, <<>>, player)
      idx == IndexOf(t.lasts, t.current)
  IN [k \in 1..(Len(t.lasts) - idx - 1) |-> <<t.lasts[idx + 1 + k], t.seconds[idx + k]>>]

\* getPairsToDelete: the loop over the successors of right
RECURSIVE SR_addPairs(_, _, _)
SR_addPairs(pairs, right, successors) ==
  IF successors = <<>> THEN pairs
  ELSE LET successor == Head(successors)
           pairExists == \E k \in 1..Len(pairs) : pairs[k] = <<right, successor>> \/ pairs[k] = <<successor, right>>
       IN SR_addPairs(IF pairExists THEN pairs ELSE Append(pairs, <<right, successor>>), right, Tail(successors))

\* getPairsToDelete: the loop over the cycle, from index i (0-based)
RECURSIVE SR_pairsFrom(_, _, _, _)
SR_pairsFrom(pr, cycle, i, pairs) ==
  IF i >= Len(cycle) THEN pairs
  ELSE LET right == cycle[i + 1][2]
           leftIdx == (i - 1 + Len(cycle)) % Len(cycle)
           left == cycle[leftIdx + 1][1]
           successors == Slice(pr[right], IndexOf(pr[right], left) + 1)
       IN SR_pairsFrom(pr, cycle, i + 1, SR_addPairs(pairs, right, successors))

\* getPairsToDelete
getPairsToDelete(pr, cycle) == SR_pairsFrom(pr, cycle, 0, <<>>)

\* secondPhase: for (const [p, other] of pairs) deletePair(p, other)
RECURSIVE SR_deletePairs(_, _)
SR_deletePairs(pr, pairs) ==
  IF pairs = <<>> THEN pr
  ELSE SR_deletePairs(deletePair(pr, Head(pairs)[1], Head(pairs)[2]), Tail(pairs))

\* players.find((p) => p.prefs.length > 1)
SR_findPlayer(pr) ==
  LET many == SelectSeq(party.players, LAMBDA q : Len(pr[q]) > 1)
  IN IF many = <<>> THEN NULL ELSE many[1]

\* StableRoommates.checkInputs: the lists of a player that pass, those whose
\* set of members is the set of the other players
SR_rankings(others) ==
  Rankings(others) \cup
  {f \in UNION {[1..k -> Range(others)] : k \in Exhaustive} : Range(f) = Range(others)}

\* the preference tables that give every player of array s a list that passes
RECURSIVE SR_tables(_, _)
SR_tables(s, all) ==
  IF s = <<>> THEN {<<>>}
  ELSE {[q \in DOMAIN t \cup {Head(s)} |-> IF q = Head(s) THEN r ELSE t[q]] :
          t \in SR_tables(Tail(s), all), r \in SR_rankings(Without(all, Head(s)))}

\* new StableRoommates(players) on input the constructor accepts
SRInit ==
  /\ game = "SR"
  /\ \E n \in 1..MaxSR : party = [players |-> SubSeq(RoommateNames, 1, n)]
  /\ prefs \in SR_tables(party.players, party.players)
  /\ originalPrefs = prefs
  /\ matching = [q \in SRPlayers |-> NULL]
  /\ capacity = <<>>
  /\ free = <<>>
  /\ optimal = NULL
  /\ pc = "ready"
  /\ result = <<>>
  /\ solved = {}
  /\ iterations = 0
  /\ caller = Supplied(party, prefs, matching, capacity)
  /\ blockingPairs = <<>>
  /\ returned = <<>>

\* StableRoommates.solve up to the first loop test of firstPhase
SRSolve ==
  /\ game = "SR" /\ pc = "ready"
  /\ free' = party.players
  /\ pc' = "phase1"
  /\ iterations' = 0
  /\ UNCHANGED <<game, party, prefs, originalPrefs, matching, capacity, optimal, result, solved>>
  /\ caller' = CallerAfter(prefs', matching')
  /\ UNCHANGED <<blockingPairs, returned>>

\* one iteration of the while loop of firstPhase
SRFirstPhaseStep ==
  /\ game = "SR" /\ pc = "phase1" /\ Len(free) > 0
  /\ iterations < MaxIterations
  /\ iterations' = iterations + 1
  /\ LET player == free[Len(free)]
         popped == SubSeq(free, 1, Len(free) - 1)
     IN IF Len(prefs[player]) = 0
        THEN /\ free' = popped
             /\ UNCHANGED <<prefs, matching>>
        ELSE LET favourite == getFavourite(prefs, player)
                 current == matching[favourite]
                 f1 == IF current # NULL THEN Append(popped, current) ELSE popped
                 m1 == Player_match(matching, favourite, player)
                 after == SR_firstPhaseSuccessors(prefs, f1, getSuccessors(prefs, m1, favourite), favourite)
             IN /\ matching' = m1
                /\ prefs' = after.prefs
                /\ free' = after.free
  /\ UNCHANGED <<game, party, originalPrefs, capacity, optimal, pc, result, solved>>
  /\ caller' = CallerAfter(prefs', matching')
  /\ UNCHANGED <<blockingPairs, returned>>

\* firstPhase returns: stableRoommates enters secondPhase or skips it
SRFirstPhaseEnd ==
  /\ game = "SR" /\ pc = "phase1" /\ Len(free) = 0
  /\ pc' = IF \E q \in SRPlayers : Len(prefs[q]) > 1 THEN "phase2" ELSE "return"
  /\ UNCHANGED <<game, party, prefs, originalPrefs, matching, capacity, free, optimal, result, solved, iterations>>
  /\ caller' = CallerAfter(prefs', matching')
  /\ UNCHANGED <<blockingPairs, returned>>

\* one iteration of the while loop of secondPhase
SRSecondPhaseStep ==
  /\ game = "SR" /\ pc = "phase2" /\ SR_findPlayer(prefs) # NULL
  /\ iterations < MaxIterations
  /\ iterations' = iterations + 1
  /\ LET cycle == locateAllOrNothingCycle(prefs, SR_findPlayer(prefs))
         pairs == getPairsToDelete(prefs, cycle)
         pr1 == SR_deletePairs(prefs, pairs)
     IN /\ prefs' = pr1
        /\ pc' = IF \E q \in SRPlayers : Len(pr1[q]) = 0 THEN "final" ELSE "phase2"
  /\ UNCHANGED <<game, party, originalPrefs, matching, capacity, free, optimal, result, solved>>
  /\ caller' = CallerAfter(prefs', matching')
  /\ UNCHANGED <<blockingPairs, returned>>

\* the loop of secondPhase has ended: the final matching
SRSecondPhaseEnd ==
  /\ game = "SR"
  /\ pc = "final" \/ (pc = "phase2" /\ SR_findPlayer(prefs) = NULL)
  /\ matching' = [q \in SRPlayers |-> IF Len(prefs[q]) > 0 THEN getFavourite(prefs, q) ELSE NULL]
  /\ pc' = "return"
  /\ UNCHANGED <<game, party, prefs, originalPrefs, capacity, free, optimal, result, solved, iterations>>
  /\ caller' = CallerAfter(prefs', matching')
  /\ UNCHANGED <<blockingPairs, returned>>

\* stableRoommates builds the result map; solve wraps it and returns
SRReturn ==
  /\ game = "SR" /\ pc = "return"
  /\ result' = [q \in SRPlayers |-> matching[q]]
  /\ pc' = "done"
  /\ UNCHANGED <<game, party, prefs, originalPrefs, matching, capacity, free, optimal, solved, iterations>>
  /\ caller' = CallerAfter(prefs', matching')
  /\ UNCHANGED <<blockingPairs, returned>>

SRNext == SRSolve \/ SRFirstPhaseStep \/ SRFirstPhaseEnd \/ SRSecondPhaseStep \/ SRSecondPhaseEnd \/ SRReturn

SpecSR == SRInit /\ [][SRNext]_vars

----------------------------------------------------------------------------
(* Stable Roommates: the theory the claims refer to *)

\* the ways of pairing off all the players, as a map on the players
RECURSIVE SR_pairings(_)
SR_pairings(S) ==
  IF S = {} THEN {<<>>}
  ELSE LET a == CHOOSE x \in S : TRUE
       IN UNION {{[q \in DOMAIN M \cup {a, b} |-> IF q = a THEN b ELSE IF q = b THEN a ELSE M[q]] :
                    M \in SR_pairings(S \ {a, b})} : b \in S \ {a}}

\* the pair {p, q} blocks the one-to-one matching M
SR_blocks(M, p, q) == p # q /\ StrictlyPrefers(M, p, q) /\ StrictlyPrefers(M, q, p)

\* M has no blocking pair
SR_stable(M) == \A p, q \in SRPlayers : ~SR_blocks(M, p, q)

\* the instance has a stable matching
SR_solvable == \E M \in SR_pairings(SRPlayers) : SR_stable(M)

\* the number of entries left in the preference lists of the players of array s
RECURSIVE TotalPrefs(_, _)
TotalPrefs(pr, s) == IF s = <<>> THEN 0 ELSE Len(pr[Head(s)]) + TotalPrefs(pr, Tail(s))

----------------------------------------------------------------------------
(* Stable Roommates: the claims *)

\* every player's list holds each other player exactly once
SR_eachRanksAllOthers ==
  \A p \in SRPlayers :
    /\ Len(originalPrefs[p]) = Cardinality(SRPlayers) - 1
    /\ Range(originalPrefs[p]) = SRPlayers \ {p}

\* C7: after solve() of any instance the constructor accepts, stable matching
\* or not, the matching is symmetric: a player matched to q is the match of q.
C7_Symmetric ==
  (game = "SR" /\ pc = "done") =>
    \A p \in SRPlayers : matching[p] # NULL => matching[matching[p]] = p

\* C8: when each player ranks all others, solve() returns a complete matching
\* without a blocking pair by the original lists if the instance has a stable
\* matching, and a matching with some player on null if it has none.
C8_CompleteIffSolvable ==
  (game = "SR" /\ pc = "done" /\ SR_eachRanksAllOthers) =>
    IF SR_solvable
    THEN (\A p \in SRPlayers : result[p] # NULL) /\ SR_stable(result)
    ELSE \E p \in SRPlayers : result[p] = NULL

\* a solved instance of six players that has a stable matching, in which some
\* player does not end with its first choice
C8_Witness ==
  /\ game = "SR" /\ pc = "done" /\ SR_eachRanksAllOthers
  /\ Cardinality(SRPlayers) = MaxSR
  /\ SR_solvable
  /\ \A p \in SRPlayers : result[p] # NULL
  /\ \E p \in SRPlayers : result[p] # originalPrefs[p][1]

\* C9: on any instance the constructor accepts, every iteration of the loop of
\* secondPhase that does not leave the loop deletes at least one pair, so that
\* solve() terminates.
C9_PhaseTwoProgress ==
  [][(game = "SR" /\ pc = "phase2" /\ pc' = "phase2") =>
       TotalPrefs(prefs', party.players) < TotalPrefs(prefs, party.players)]_vars

----------------------------------------------------------------------------
(* Project and Supervisor *)

SAStudents == Range(party.students)
SAProjects == Range(party.projects)
SASupervisors == Range(party.supervisors)

\* Supervisor.projects: filled by Project.setSupervisor in the order of the projects
SA_projectsOf(v) == SelectSeq(party.projects, LAMBDA p : party.supervisor[p] = v)

\* Supervisor._forget
Supervisor_forget(pr, v, student) ==
  LET rankedByAnyProject == \E i \in 1..Len(SA_projectsOf(v)) : Includes(pr[SA_projectsOf(v)[i]], student)
  IN IF Includes(pr[v], student) /\ ~rankedByAnyProject
     THEN [pr EXCEPT ![v] = Without(@, student)]
     ELSE pr

\* a Project._forget that moves the student to the end of the list
Project_forget_moveToEnd(pr, p, student) ==
  IF Includes(pr[p], student) THEN [pr EXCEPT ![p] = Append(Without(@, student), student)] ELSE pr

\* Project._forget
Project_forget(pr, p, student) ==
  IF Includes(pr[p], student)
  THEN Supervisor_forget([pr EXCEPT ![p] = Without(@, student)], party.supervisor[p], student)
  ELSE pr

\* Project._match
Project_match(m, pr, p, student) ==
  Hospital_match(Hospital_match(m, pr, p, student), pr, party.supervisor[p], student)

\* a Project._unmatch that leaves the supervisor's match list alone
Project_unmatch_projectOnly(m, p, student) == Hospital_unmatch(m, p, student)

\* Project._unmatch
Project_unmatch(m, p, student) ==
  Hospital_unmatch(Hospital_unmatch(m, p, student), party.supervisor[p], student)

\* the projects of supervisor v that student may be given, in the student's order
SA_viableProjects(pr, m, v, student) ==
  SelectSeq(pr[student], LAMBDA pref :
    /\ Includes(SA_projectsOf(v), pref)
    /\ ~Includes(m[pref], student)
    /\ Len(m[pref]) < capacity[pref])

\* a getFavouriteStudentProject that takes the last viable student of the list
getFavouriteStudentProject_last(pr, m, v) ==
  IF Len(m[v]) < capacity[v]
  THEN LET viable == SelectSeq(pr[v], LAMBDA student : SA_viableProjects(pr, m, v, student) # <<>>)
       IN IF viable = <<>> THEN NULL
          ELSE <<viable[Len(viable)], SA_viableProjects(pr, m, v, viable[Len(viable)])[1]>>
  ELSE NULL

\* Supervisor.getFavouriteStudentProject
getFavouriteStudentProject(pr, m, v) ==
  IF Len(m[v]) < capacity[v]
  THEN LET viable == SelectSeq(pr[v], LAMBDA student : SA_viableProjects(pr, m, v, student) # <<>>)
       IN IF viable = <<>> THEN NULL
          ELSE <<viable[1], SA_viableProjects(pr, m, v, viable[1])[1]>>
  ELSE NULL

----------------------------------------------------------------------------
(* Student Allocation *)

\* student-allocation unmatchPair
SA_unmatchPair(m, student, project) == Project_unmatch(Player_unmatch(m, student), project, student)

\* matchPair on a (student, project) pair
SA_matchPair(m, pr, student, project) == Project_match(Player_match(m, student, project), pr, project, student)

\* deletePair(project, student)
SA_deletePair(pr, project, student) == Player_forget(Project_forget(pr, project, student), student, project)

\* studentOptimal: the eviction that follows a proposal, the project's only
SA_evict_projectOnly(m, fr, project, supervisor) ==
  IF Len(m[project]) > capacity[project]
  THEN LET worst == Hospital_getWorstMatch(m, project)
       IN [matching |-> SA_unmatchPair(m, worst, project), free |-> Append(fr, worst), threw |-> FALSE]
  ELSE [matching |-> m, free |-> fr, threw |-> FALSE]

\* studentOptimal: the eviction that follows a proposal
SA_evict(m, fr, project, supervisor) ==
  IF Len(m[project]) > capacity[project]
  THEN LET worst == Hospital_getWorstMatch(m, project)
       IN [matching |-> SA_unmatchPair(m, worst, project), free |-> Append(fr, worst), threw |-> FALSE]
  ELSE IF Len(m[supervisor]) > capacity[supervisor]
  THEN LET worst == Hospital_getWorstMatch(m, supervisor)
           worstProject == m[worst]
       IN IF worstProject = NULL
          THEN [matching |-> m, free |-> fr, threw |-> TRUE]
          ELSE [matching |-> SA_unmatchPair(m, worst, worstProject), free |-> Append(fr, worst), threw |-> FALSE]
  ELSE [matching |-> m, free |-> fr, threw |-> FALSE]

\* studentOptimal: the loop over the successors of the project
RECURSIVE SA_projectSuccessors(_, _, _, _)
SA_projectSuccessors(pr, fr, successors, project) ==
  IF successors = <<>> THEN [prefs |-> pr, free |-> fr]
  ELSE LET successor == Head(successors)
           pr1 == SA_deletePair(pr, project, successor)
           fr1 == IF Len(pr1[successor]) = 0 THEN SpliceOut(fr, successor) ELSE fr
       IN SA_projectSuccessors(pr1, fr1, Tail(successors), project)

\* a deletion that stops after the first of the supervisor's projects
SA_deleteProjects_firstOnly(pr, projs, successor) ==
  IF projs = <<>> THEN pr ELSE SA_deletePair(pr, Head(projs), successor)

\* studentOptimal: for (const proj of supervisorProjects) deletePair(proj, successor)
RECURSIVE SA_deleteProjects(_, _, _)
SA_deleteProjects(pr, projs, successor) ==
  IF projs = <<>> THEN pr
  ELSE SA_deleteProjects(SA_deletePair(pr, Head(projs), successor), Tail(projs), successor)

\* studentOptimal: the loop over the successors of the supervisor
RECURSIVE SA_supervisorSuccessors(_, _, _, _)
SA_supervisorSuccessors(pr, fr, successors, supervisor) ==
  IF successors = <<>> THEN [prefs |-> pr, free |-> fr]
  ELSE LET successor == Head(successors)
           supervisorProjects == SelectSeq(SA_projectsOf(supervisor), LAMBDA p : Includes(pr[successor], p))
           pr1 == SA_deleteProjects(pr, supervisorProjects, successor)
           fr1 == IF Len(pr1[successor]) = 0 THEN SpliceOut(fr, successor) ELSE fr
       IN SA_supervisorSuccessors(pr1, fr1, Tail(successors), supervisor)

\* supervisorOptimal: for (const successor of successors) deletePair(student, successor)
RECURSIVE SA_studentSuccessors(_, _, _)
SA_studentSuccessors(pr, successors, student) ==
  IF successors = <<>> THEN pr
  ELSE SA_studentSuccessors(Project_forget(Player_forget(pr, student, Head(successors)), Head(successors), student),
                            Tail(successors), student)

\* the party sizes for which every partial ranking is enumerated
Thorough == {0, 1, 2}

\* the lists a supervisor may give: every partial ranking of a small party, and
\* of a larger one the rotations of its array and the array without its last
SA_supervisorRankings(s) ==
  IF Len(s) \in Thorough THEN PartialRankings(s)
  ELSE Rotations(s) \cup {SubSeq(s, 1, Len(s) - 1)}

\* Supervisor.setPrefs: the list passed on to project p
SA_projectPrefs(students, sp, p) == SelectSeq(students, LAMBDA student : Includes(sp[student], p))

\* new StudentAllocation(students, projects, supervisors), clean mode off, on
\* duplicate-free lists of members and capacities of at least one
SAInit ==
  /\ game = "SA"
  /\ \E n \in 1..MaxStudents, k \in 1..Len(SupervisorNames) :
       LET vs == SubSeq(SupervisorNames, 1, k)
       IN party = [students |-> SubSeq(StudentNames, 1, n),
                   projects |-> ProjectNames,
                   supervisors |-> vs,
                   supervisor |-> [p \in Range(ProjectNames) |->
                                     vs[IF IndexOf(ProjectNames, p) + 1 < k THEN IndexOf(ProjectNames, p) + 1 ELSE k]]]
  /\ \E sp \in [SAStudents -> PartialRankings(party.projects)],
        vp \in [SASupervisors -> SA_supervisorRankings(party.students)] :
       prefs = [x \in SAStudents \cup SAProjects \cup SASupervisors |->
                  IF x \in SAStudents THEN sp[x]
                  ELSE IF x \in SASupervisors THEN vp[x]
                  ELSE SA_projectPrefs(vp[party.supervisor[x]], sp, x)]
  /\ originalPrefs = prefs
  /\ capacity \in [SAProjects \cup SASupervisors -> 1..MaxCapacity]
  /\ matching = [x \in DOMAIN prefs |-> IF x \in SAStudents THEN NULL ELSE <<>>]
  /\ free = <<>>
  /\ optimal = NULL
  /\ pc = "ready"
  /\ result = <<>>
  /\ solved = {}
  /\ iterations = 0
  /\ caller = Supplied(party, prefs, matching, capacity)
  /\ blockingPairs = <<>>
  /\ returned = <<>>

\* StudentAllocation.solve up to the first loop test of the solver
SASolve ==
  /\ game = "SA" /\ pc = "ready"
  /\ \E o \in {"student", "supervisor"} :
       /\ optimal' = o
       /\ free' = IF o = "student" THEN party.students ELSE party.supervisors
       /\ pc' = IF o = "student" THEN "studentOptimal" ELSE "supervisorOptimal"
  /\ iterations' = 0
  /\ UNCHANGED <<game, party, prefs, originalPrefs, matching, capacity, result, solved>>
  /\ caller' = CallerAfter(prefs', matching')
  /\ UNCHANGED <<blockingPairs, returned>>

\* one iteration of the while loop of studentOptimal
SAStudentStep ==
  /\ game = "SA" /\ pc = "studentOptimal" /\ Len(free) > 0
  /\ iterations < MaxIterations
  /\ iterations' = iterations + 1
  /\ LET student == free[Len(free)]
         popped == SubSeq(free, 1, Len(free) - 1)
     IN IF Len(prefs[student]) = 0
        THEN /\ free' = popped
             /\ UNCHANGED <<prefs, matching, pc>>
        ELSE LET project == getFavourite(prefs, student)
                 supervisor == party.supervisor[project]
             IN \E m1 \in {SA_matchPair(matching, prefs, student, project)} :
                \E ev \in {SA_evict(m1, popped, project, supervisor)} :
                IF ev.threw
                THEN /\ pc' = "threw"
                     /\ matching' = m1
                     /\ free' = popped
                     /\ UNCHANGED prefs
                ELSE \E a \in {IF Len(ev.matching[project]) = capacity[project]
                              THEN SA_projectSuccessors(prefs, ev.free, Hospital_getSuccessors(prefs, ev.matching, project), project)
                              ELSE [prefs |-> prefs, free |-> ev.free]} :
                     \E b \in {IF Len(ev.matching[supervisor]) = capacity[supervisor]
                              THEN SA_supervisorSuccessors(a.prefs, a.free, Hospital_getSuccessors(a.prefs, ev.matching, supervisor), supervisor)
                              ELSE a} :
                        /\ matching' = ev.matching
                        /\ prefs' = b.prefs
                        /\ free' = b.free
                        /\ UNCHANGED pc
  /\ UNCHANGED <<game, party, originalPrefs, capacity, optimal, result, solved>>
  /\ caller' = CallerAfter(prefs', matching')
  /\ UNCHANGED <<blockingPairs, returned>>

\* one iteration of the while loop of supervisorOptimal
SASupervisorStep ==
  /\ game = "SA" /\ pc = "supervisorOptimal" /\ Len(free) > 0
  /\ iterations < MaxIterations
  /\ iterations' = iterations + 1
  /\ LET supervisor == free[Len(free)]
         favourite == getFavouriteStudentProject(prefs, matching, supervisor)
     IN IF favourite = NULL
        THEN /\ free' = SubSeq(free, 1, Len(free) - 1)
             /\ UNCHANGED <<prefs, matching>>
        ELSE LET student == favourite[1]
                 project == favourite[2]
                 m0 == IF matching[student] # NULL THEN SA_unmatchPair(matching, student, matching[student]) ELSE matching
             IN \E m1 \in {SA_matchPair(m0, prefs, student, project)} :
                \E pr1 \in {SA_studentSuccessors(prefs, getSuccessors(prefs, m1, student), student)} :
                /\ matching' = m1
                /\ prefs' = pr1
                /\ free' = SelectSeq(party.supervisors, LAMBDA v : getFavouriteStudentProject(pr1, m1, v) # NULL)
  /\ UNCHANGED <<game, party, originalPrefs, capacity, optimal, pc, result, solved>>
  /\ caller' = CallerAfter(prefs', matching')
  /\ UNCHANGED <<blockingPairs, returned>>

\* the loop of the solver ends: build the result map, wrap it and return
SAReturn ==
  /\ game = "SA" /\ pc \in {"studentOptimal", "supervisorOptimal"} /\ Len(free) = 0
  /\ result' = [p \in SAProjects |-> matching[p]]
  /\ pc' = "done"
  /\ UNCHANGED <<game, party, prefs, originalPrefs, matching, capacity, free, optimal, solved, iterations>>
  /\ caller' = CallerAfter(prefs', matching')
  /\ UNCHANGED <<blockingPairs, returned>>

SANext == SASolve \/ SAStudentStep \/ SASupervisorStep \/ SAReturn

SpecSA == SAInit /\ [][SANext]_vars

----------------------------------------------------------------------------
(* Student Allocation: the claims *)

\* C10: at every loop-iteration boundary of studentOptimal and supervisorOptimal
\* and in the returned matching, every project and, at the same time, every
\* supervisor has no more matches than its capacity: any excess a proposal
\* creates inside a step is evicted before the step ends.
C10_WithinCapacities ==
  game = "SA" =>
    /\ \A p \in SAProjects : Len(matching[p]) <= capacity[p]
    /\ \A v \in SASupervisors : Len(matching[v]) <= capacity[v]
    /\ pc = "done" => \A p \in SAProjects : Len(result[p]) <= capacity[p]
    /\ pc = "done" => \A v \in SASupervisors :
         Cardinality({x \in SAStudents : \E i \in 1..Len(SA_projectsOf(v)) : Includes(result[SA_projectsOf(v)[i]], x)}) <= capacity[v]

\* a studentOptimal step has just put an evicted student back on the worklist
\* (the list is no longer a prefix of the students) although the project
\* proposed to has room: the proposal took the supervisor over its capacity
C10_Witness ==
  /\ game = "SA" /\ pc = "studentOptimal" /\ Len(free) > 0
  /\ free # SubSeq(party.students, 1, Len(free))
  /\ matching[free[Len(free)]] = NULL
  /\ \A p \in SAProjects : Len(matching[p]) < capacity[p]
  /\ \E v \in SASupervisors : Len(matching[v]) = capacity[v]

----------------------------------------------------------------------------
(* StudentAllocation: the post-solve checks *)

\* the (student, project) pairs in the order of the nested loops
SA_allPairs ==
  LET n == Len(party.projects)
  IN [k \in 1..(Len(party.students) * n) |->
        <<party.students[((k - 1) \div n) + 1], party.projects[((k - 1) % n) + 1]>>]

\* checkStudentUnhappy
checkStudentUnhappy(student, project) ==
  matching[student] = NULL \/ prefers(student, project, matching[student])

\* checkProjectUnhappy
checkProjectUnhappy(project, student) ==
  LET supervisor == party.supervisor[project]
      projectUndersubscribed == Len(matching[project]) < capacity[project]
      bothUndersubscribed == projectUndersubscribed /\ Len(matching[supervisor]) < capacity[supervisor]
      supervisorFull == Len(matching[supervisor]) = capacity[supervisor]
      swapAvailable ==
        \/ Includes(matching[supervisor], student) /\ matching[student] # project
        \/ /\ Hospital_getWorstMatch(matching, supervisor) # NULL
           /\ prefers(supervisor, student, Hospital_getWorstMatch(matching, supervisor))
      projectUpsettingSupervisor ==
        /\ Len(matching[project]) = capacity[project]
        /\ Hospital_getWorstMatch(matching, project) # NULL
        /\ prefers(supervisor, student, Hospital_getWorstMatch(matching, project))
  IN \/ bothUndersubscribed
     \/ projectUndersubscribed /\ supervisorFull /\ swapAvailable
     \/ projectUpsettingSupervisor

\* StudentAllocation.checkStability: the list it stores in blockingPairs
SA_blockingPairs ==
  SelectSeq(SA_allPairs, LAMBDA sp :
    /\ Includes(prefs[sp[1]], sp[2])
    /\ checkStudentUnhappy(sp[1], sp[2])
    /\ checkProjectUnhappy(sp[2], sp[1]))

\* StudentAllocation.checkStability: the value it returns
SA_checkStability == SA_blockingPairs = <<>>

----------------------------------------------------------------------------
(* Student Allocation: the theory the claims refer to *)

\* the instance is valid: a student ranks a project exactly when the project
\* ranks the student, and a supervisor ranks exactly the students who rank one
\* of its projects
SA_valid ==
  /\ \A s \in SAStudents, p \in SAProjects :
       Includes(originalPrefs[s], p) <=> Includes(originalPrefs[p], s)
  /\ \A s \in SAStudents, v \in SASupervisors :
       Includes(originalPrefs[v], s) <=>
         \E p \in SAProjects : party.supervisor[p] = v /\ Includes(originalPrefs[s], p)

\* supervisor v ranks student s ahead of the student it ranks last among list
SA_beatsWorst(v, s, list) ==
  \E i \in 1..Len(list) :
    /\ \A j \in 1..Len(list) : Rank(v, list[j]) <= Rank(v, list[i])
    /\ Rank(v, s) < Rank(v, list[i])

\* the pair (s, p) blocks the matching, by the original lists
SA_blocks(s, p) ==
  LET v == party.supervisor[p]
  IN /\ Rank(s, p) > 0
     /\ matching[s] # p
     /\ (matching[s] = NULL \/ Rank(s, p) < Rank(s, matching[s]))
     /\ \/ Len(matching[p]) < capacity[p] /\ Len(matching[v]) < capacity[v]
        \/ /\ Len(matching[p]) < capacity[p] /\ Len(matching[v]) = capacity[v]
           /\ (Includes(matching[v], s) \/ SA_beatsWorst(v, s, matching[v]))
        \/ Len(matching[p]) = capacity[p] /\ SA_beatsWorst(v, s, matching[p])

----------------------------------------------------------------------------
(* Student Allocation: the claims on the solved game *)

\* C11: after solve('student') and after solve('supervisor') of a valid
\* instance (reciprocated lists, capacities of at least one) no (student,
\* project) pair blocks the matching, and checkStability() returns true.
C11_NoBlockingPair ==
  (game = "SA" /\ pc = "done" /\ SA_valid) =>
    /\ \A s \in SAStudents, p \in SAProjects : ~SA_blocks(s, p)
    /\ SA_checkStability

\* a valid instance is solved in which two students ranked the same project
\* first and one of them did not get it
C11_Witness ==
  /\ game = "SA" /\ pc = "done" /\ SA_valid
  /\ \E s, t \in SAStudents :
       /\ s # t
       /\ Len(originalPrefs[s]) > 0 /\ Len(originalPrefs[t]) > 0
       /\ originalPrefs[s][1] = originalPrefs[t][1]
       /\ matching[s] = originalPrefs[s][1]
       /\ matching[t] # originalPrefs[t][1]
  /\ SA_checkStability

----------------------------------------------------------------------------
(* The worked examples *)

\* the Stable Marriage example of the README
README_StableMarriage ==
  [A |-> <<"X", "Y", "Z">>, B |-> <<"Y", "X", "Z">>, C |-> <<"Y", "Z", "X">>,
   X |-> <<"B", "A", "C">>, Y |-> <<"A", "B", "C">>, Z |-> <<"A", "B", "C">>]

\* the README example has been solved for the suitors, as the first solve
C12_Solved ==
  /\ game = "SM" /\ originalPrefs = README_StableMarriage
  /\ optimal = "suitor" /\ pc = "done"

Example_HospitalResident ==
  [A |-> <<"X", "Y">>, B |-> <<"Y", "X">>, C |-> <<"X", "Y">>,
   X |-> <<"A", "C", "B">>, Y |-> <<"B", "A", "C">>]

Example_HospitalResidentCapacity == [X |-> 2, Y |-> 1]

\* the example has been solved resident-optimal, as the first solve
C13_Solved ==
  /\ game = "HR" /\ originalPrefs = Example_HospitalResident
  /\ capacity = Example_HospitalResidentCapacity
  /\ optimal = "resident" /\ pc = "done"

\* C13: the example, solved in the default resident-optimal direction, yields
\* exactly X:[A,C], in that order, and Y:[B].
C13_ResidentOptimalResult == C13_Solved => result = [X |-> <<"A", "C">>, Y |-> <<"B">>]

\* the example solved resident-optimal on the game as constructed
C13_Witness == C13_Solved /\ solved = {} /\ matching["C"] = "X"

\* the (player, other) pairs StableRoommates.checkStability looks at and
\* keeps: a pair is skipped once it is recorded the other way round
SR_blockingPairs ==
  LET n == Len(party.players)
      pairs == [k \in 1..(n * n) |-> <<party.players[((k - 1) \div n) + 1], party.players[((k - 1) % n) + 1]>>]
  IN SelectSeq(pairs, LAMBDA po :
       /\ IndexOf(party.players, po[1]) < IndexOf(party.players, po[2])
       /\ matching[po[1]] # NULL /\ matching[po[2]] # NULL
       /\ prefers(po[1], po[2], matching[po[1]])
       /\ prefers(po[2], po[1], matching[po[2]]))

\* StableRoommates.checkStability: the value it returns
SR_checkStability ==
  /\ \A q \in SRPlayers : result[q] # NULL
  /\ SR_blockingPairs = <<>>

\* the Stable Roommates example of the README
README_StableRoommates ==
  [A |-> <<"B", "C", "D">>, B |-> <<"A", "C", "D">>, C |-> <<"A", "B", "D">>, D |-> <<"A", "B", "C">>]

\* the README example has been solved
C14_Solved == game = "SR" /\ originalPrefs = README_StableRoommates /\ pc = "done"

\* C14: the README example solves to exactly {A:B, B:A, C:D, D:C}; no
\* player's list is emptied and the matching has no blocking pair.
C14_Result ==
  C14_Solved =>
    /\ result = [A |-> "B", B |-> "A", C |-> "D", D |-> "C"]
    /\ \A q \in SRPlayers : Len(prefs[q]) > 0
    /\ SR_stable(result)
    /\ SR_checkStability

\* the README example solved, every list cut down to the partner
C14_Witness == C14_Solved /\ \A q \in SRPlayers : prefs[q] = <<result[q]>>

----------------------------------------------------------------------------
(* the four games over the entities of one caller *)

\* checkStability() on a solved game of any of the four classes: the list it
\* assigns to blockingPairs and the value it returns. StableRoommates returns
\* false before the assignment when the matching has a null value.
CheckStability ==
  /\ pc = "done"
  /\ CASE game = "SM" -> /\ blockingPairs' = <<SM_blockingPairs>>
                         /\ returned' = <<SM_checkStability>>
       [] game = "HR" -> /\ blockingPairs' = <<HR_blockingPairs>>
                         /\ returned' = <<HR_checkStability>>
       [] game = "SA" -> /\ blockingPairs' = <<SA_blockingPairs>>
                         /\ returned' = <<SA_checkStability>>
       [] game = "SR" -> IF \E q \in SRPlayers : result[q] = NULL
                         THEN /\ returned' = <<FALSE>>
                              /\ UNCHANGED blockingPairs
                         ELSE /\ blockingPairs' = <<SR_blockingPairs>>
                              /\ returned' = <<SR_checkStability>>
  /\ UNCHANGED <<game, party, prefs, originalPrefs, matching, capacity, free,
                 optimal, pc, result, solved, iterations>>
  /\ caller' = CallerAfter(prefs', matching')

\* the instances small enough for every ranking to be enumerated, and the
\* hospital games in which every resident ranks every hospital
GamesInit ==
  \/ SMInit /\ Len(party.suitors) \in Thorough
  \/ HRInit /\ \A r \in Range(party.residents) : Len(prefs[r]) = Len(party.hospitals)
  \/ SRInit /\ Len(party.players) - 1 \in Exhaustive
  \/ SAInit /\ Len(party.students) \in Thorough /\ \A c \in DOMAIN capacity : capacity[c] \in Thorough

GamesNext == SMNext \/ HRNext \/ SRNext \/ SANext \/ NewGame \/ CheckStability

SpecGames == GamesInit /\ [][GamesNext]_vars

----------------------------------------------------------------------------
(* the constructors of the one-to-one games on any input *)

\* what cloneMap.get returns for an entity that is not a player of the game
UNDEFINED == "undefined"
\* an entity of the caller that is no player of the game
Outsider == "?"

\* the arrays over S of at most k entries
Lists(S, k) == UNION {[1..j -> S] : j \in 0..k}

\* cloneMap.get(p)
cloneMap_get(players, p) == IF p \in players THEN p ELSE UNDEFINED

\* list.map((p) => cloneMap.get(p)!) for a clone map with the given keys
ClonedList(list, keys) == [i \in 1..Len(list) |-> cloneMap_get(keys, list[i])]

\* player.prefs.map((p) => cloneMap.get(p)!) of every player
ClonedPrefs(players, pr) == [p \in players |-> ClonedList(pr[p], players)]

\* setPrefs reads p.name of every entry (players.map((p) => p.name)): a
\* TypeError when an entry is undefined
setPrefs_throws(list) == Includes(list, UNDEFINED)

\* checkNumPlayers: TRUE when it does not throw
checkNumPlayers(pa) == Len(pa.suitors) = Len(pa.reviewers)

\* checkPlayerRanks: TRUE when it does not throw
checkPlayerRanks(pa, pr, player) ==
  LET others == IF Includes(pa.suitors, player) THEN pa.reviewers ELSE pa.suitors
      playerPrefSet == Range(pr[player])
      othersSet == Range(others)
  IN  /\ Cardinality(playerPrefSet) = Cardinality(othersSet)
      /\ \A q \in playerPrefSet : q \in othersSet

\* StableMarriage.checkInputs: TRUE when it does not throw
SM_checkInputs(pa, pr) ==
  /\ checkNumPlayers(pa)
  /\ \A suitor \in Range(pa.suitors) : checkPlayerRanks(pa, pr, suitor)
  /\ \A reviewer \in Range(pa.reviewers) : checkPlayerRanks(pa, pr, reviewer)

\* StableRoommates.checkInputs: TRUE when it does not throw
SR_checkInputs(pa, pr) ==
  \A player \in Range(pa.players) :
    LET others == Range(pa.players) \ {player}
        prefSet == Range(pr[player])
    IN  /\ Cardinality(prefSet) = Cardinality(others)
        /\ \A q \in prefSet : q \in others

\* the tables that give every player of array s a list of its set ch[player]
RECURSIVE Tables(_, _)
Tables(s, ch) ==
  IF s = <<>> THEN {<<>>}
  ELSE {[q \in DOMAIN t \cup {Head(s)} |-> IF q = Head(s) THEN r ELSE t[q]] :
          t \in Tables(Tail(s), ch), r \in ch[Head(s)]}

\* the inputs of a constructor: one player's list is any array over the
\* players it should rank and an outsider, every other player ranks exactly
\* the players it should, in a rotation of their array order; the game's own
\* fields are not set yet
OneToOneInput(pa, players, opposite) ==
  /\ \E odd \in Range(players) \cup {NULL} :
       \E pr \in Tables(players, [p \in Range(players) |->
                     IF p = odd THEN Lists(Range(opposite[p]) \cup {Outsider}, MaxList)
                     ELSE Rotations(opposite[p]) \cup {opposite[p]}]) :
          caller = Supplied(pa, pr, [p \in Range(players) |-> NULL], <<>>)
  /\ blockingPairs = <<>> /\ returned = <<>>
  /\ party = <<>> /\ prefs = <<>> /\ originalPrefs = <<>> /\ matching = <<>>
  /\ capacity = <<>> /\ free = <<>> /\ optimal = NULL /\ pc = "new"
  /\ result = <<>> /\ solved = {} /\ iterations = 0

\* the arguments of new StableMarriage(suitors, reviewers) and of
\* new StableRoommates(players)
OneToOneInit ==
  \/ /\ game = "SM"
     /\ \E n, m \in 0..MaxParty :
          LET ss == SubSeq(SuitorNames, 1, n)
              rs == SubSeq(ReviewerNames, 1, m)
          IN  OneToOneInput([suitors |-> ss, reviewers |-> rs], ss \o rs,
                            [p \in Range(ss) \cup Range(rs) |-> IF p \in Range(ss) THEN rs ELSE ss])
  \/ /\ game = "SR"
     /\ \E n \in 0..(MaxParty + 1) :
          LET ps == SubSeq(RoommateNames, 1, n)
          IN  OneToOneInput([players |-> ps], ps, [p \in Range(ps) |-> Without(ps, p)])

\* new StableMarriage(suitors, reviewers): the deep copy, then checkInputs
SMConstruct ==
  /\ game = "SM" /\ pc = "new"
  /\ party' = caller.party
  /\ prefs' = ClonedPrefs(DOMAIN caller.prefs, caller.prefs)
  /\ originalPrefs' = prefs'
  /\ matching' = [p \in DOMAIN caller.prefs |-> NULL]
  /\ pc' = IF /\ \A p \in DOMAIN prefs' : ~setPrefs_throws(prefs'[p])
                 /\ SM_checkInputs(party', prefs')
            THEN "ready" ELSE "threw"
  /\ UNCHANGED <<game, capacity, free, optimal, result, solved, iterations>>
  /\ caller' = CallerAfter(prefs', matching')
  /\ UNCHANGED <<blockingPairs, returned>>

\* new StableRoommates(players): the deep copy, then checkInputs
SRConstruct ==
  /\ game = "SR" /\ pc = "new"
  /\ party' = caller.party
  /\ prefs' = ClonedPrefs(DOMAIN caller.prefs, caller.prefs)
  /\ originalPrefs' = prefs'
  /\ matching' = [p \in DOMAIN caller.prefs |-> NULL]
  /\ pc' = IF /\ \A p \in DOMAIN prefs' : ~setPrefs_throws(prefs'[p])
                 /\ SR_checkInputs(party', prefs')
            THEN "ready" ELSE "threw"
  /\ UNCHANGED <<game, capacity, free, optimal, result, solved, iterations>>
  /\ caller' = CallerAfter(prefs', matching')
  /\ UNCHANGED <<blockingPairs, returned>>

OneToOneNext == SMConstruct \/ SRConstruct

SpecOneToOne == OneToOneInit /\ [][OneToOneNext]_vars

\* list ranks each member of array members exactly once and nobody else
IsPermutationOf(list, members) ==
  /\ \A i \in 1..Len(list) : Includes(members, list[i])
  /\ \A q \in Range(members) : Count(list, q) = 1

\* the input is valid: equal party sizes and complete permutations
ValidOneToOne ==
  IF game = "SM"
  THEN /\ Len(caller.party.suitors) = Len(caller.party.reviewers)
       /\ \A q \in Range(caller.party.suitors) :
            IsPermutationOf(caller.prefs[q], caller.party.reviewers)
       /\ \A q \in Range(caller.party.reviewers) :
            IsPermutationOf(caller.prefs[q], caller.party.suitors)
  ELSE \A q \in Range(caller.party.players) :
            IsPermutationOf(caller.prefs[q], Without(caller.party.players, q))

\* C17: the StableMarriage constructor throws exactly when the parties differ
\* in size or some ranking is not a complete permutation of the opposite
\* party, the StableRoommates constructor exactly when some ranking is not a
\* complete permutation of all other players; neither throws on valid input
C17_ThrowsExactlyOnInvalid ==
  pc # "new" => (pc = "threw" <=> ~ValidOneToOne)

----------------------------------------------------------------------------
(* the HospitalResident constructor on any input, clean mode on or off *)

\* uniquePrefs: the first occurrence of every entry, in order
RECURSIVE uniquePrefs(_)
uniquePrefs(list) ==
  IF list = <<>> THEN <<>>
  ELSE LET front == uniquePrefs(SubSeq(list, 1, Len(list) - 1))
           other == list[Len(list)]
       IN  IF Includes(front, other) THEN front ELSE Append(front, other)

\* the members of a party of game g
PartyOf(g, side) == g.party[side]

\* checkInputsPlayerPrefsUnique
checkInputsPlayerPrefsUnique(g, side) ==
  IF g.clean
  THEN [g EXCEPT !.prefs = [p \in DOMAIN g.prefs |->
          IF Includes(PartyOf(g, side), p) THEN uniquePrefs(g.prefs[p]) ELSE g.prefs[p]]]
  ELSE g

\* checkInputsPlayerPrefsAllInParty: a player forgets every entry of its list
\* that is not in the other party
checkInputsPlayerPrefsAllInParty(g, side, otherParty) ==
  IF g.clean
  THEN [g EXCEPT !.prefs = [p \in DOMAIN g.prefs |->
          IF Includes(PartyOf(g, side), p)
          THEN SelectSeq(g.prefs[p], LAMBDA other : Includes(PartyOf(g, otherParty), other))
          ELSE g.prefs[p]]]
  ELSE g

\* checkInputsPlayerPrefsAllReciprocated: a hospital forgets every resident
\* that does not rank it
checkInputsPlayerPrefsAllReciprocated(g) ==
  IF g.clean
  THEN [g EXCEPT !.prefs = [p \in DOMAIN g.prefs |->
          IF Includes(g.party.hospitals, p)
          THEN SelectSeq(g.prefs[p], LAMBDA other : Includes(g.prefs[other], p))
          ELSE g.prefs[p]]]
  ELSE g

\* checkInputsPlayerReciprocatedAllPrefs: a resident forgets every hospital of
\* the game that it ranks and that does not rank it
checkInputsPlayerReciprocatedAllPrefs(g) ==
  IF g.clean
  THEN [g EXCEPT !.prefs = [p \in DOMAIN g.prefs |->
          IF Includes(g.party.residents, p)
          THEN SelectSeq(g.prefs[p], LAMBDA hospital :
                 ~(Includes(g.party.hospitals, hospital) /\ ~Includes(g.prefs[hospital], p)))
          ELSE g.prefs[p]]]
  ELSE g

\* removePlayer: the party array loses the player, every member of the other
\* party forgets it
removePlayer(g, player, playerParty, otherParty) ==
  [g EXCEPT !.party[playerParty] = Without(@, player),
            !.prefs = [p \in DOMAIN g.prefs |->
               IF Includes(PartyOf(g, otherParty), p) THEN Without(g.prefs[p], player)
               ELSE g.prefs[p]]]

\* the test of a check: player.prefs.length === 0, or hospital.capacity < 1
Fails(g, player, test) ==
  IF test = "prefs.length === 0" THEN Len(g.prefs[player]) = 0 ELSE g.capacity[player] < 1

\* the loop of a check over the array players: every player that fails the
\* test in the game as it is when its turn comes is removed
RECURSIVE RemoveFailing(_, _, _, _, _)
RemoveFailing(g, players, playerParty, otherParty, test) ==
  IF players = <<>> THEN g
  ELSE RemoveFailing(IF Fails(g, Head(players), test) /\ g.clean
                     THEN removePlayer(g, Head(players), playerParty, otherParty)
                     ELSE g,
                     Tail(players), playerParty, otherParty, test)

\* checkInputsPlayerPrefsNonempty
checkInputsPlayerPrefsNonempty(g, side, otherParty) ==
  RemoveFailing(g, PartyOf(g, side), side, otherParty, "prefs.length === 0")

\* checkInputsPlayerCapacity
checkInputsPlayerCapacity(g) ==
  RemoveFailing(g, g.party.hospitals, "hospitals", "residents", "capacity < 1")

\* HospitalResident.checkInputs
HR_checkInputs(g) ==
  LET g1 == checkInputsPlayerPrefsUnique(g, "residents")
      g2 == checkInputsPlayerPrefsUnique(g1, "hospitals")
      g3 == checkInputsPlayerPrefsAllInParty(g2, "residents", "hospitals")
      g4 == checkInputsPlayerPrefsAllInParty(g3, "hospitals", "residents")
      g5 == checkInputsPlayerPrefsAllReciprocated(g4)
      g6 == checkInputsPlayerReciprocatedAllPrefs(g5)
      g7 == checkInputsPlayerPrefsNonempty(g6, "residents", "hospitals")
      g8 == checkInputsPlayerPrefsNonempty(g7, "hospitals", "residents")
  IN  checkInputsPlayerCapacity(g8)

\* the lists a caller may give a player that should rank the array others:
\* any array over others that is no longer than others, repeated entries
\* included, or an array that names an outsider
InputLists(others) ==
  Lists(Range(others), Len(others)) \cup Lists(Range(others) \cup {Outsider}, 1)

\* the arguments of new HospitalResident(residents, hospitals, { clean })
HRInputInit ==
  /\ game = "HR"
  /\ \E n, m \in 1..Len(HospitalNames) :
       LET rs == SubSeq(ResidentNames, 1, n)
           hs == SubSeq(HospitalNames, 1, m)
       IN  \E pr \in Tables(rs \o hs, [p \in Range(rs) \cup Range(hs) |->
                        IF p \in Range(rs) THEN InputLists(hs) ELSE InputLists(rs)]),
              cap \in [Range(hs) -> {0, 1, MaxCapacity}],
              clean \in BOOLEAN :
             caller = [Supplied([residents |-> rs, hospitals |-> hs], pr,
                                [p \in Range(rs) \cup Range(hs) |-> IF p \in Range(rs) THEN NULL ELSE <<>>],
                                cap)
                       EXCEPT !.options.clean = clean]
  /\ party = <<>> /\ prefs = <<>> /\ originalPrefs = <<>> /\ matching = <<>>
  /\ capacity = <<>> /\ free = <<>> /\ optimal = NULL /\ pc = "new"
  /\ result = <<>> /\ solved = {} /\ iterations = 0
  /\ blockingPairs = <<>> /\ returned = <<>>

\* new HospitalResident(residents, hospitals, options): the deep copy, then
\* checkInputs
HRConstruct ==
  /\ game = "HR" /\ pc = "new"
  /\ LET cloned == [p \in DOMAIN caller.prefs |->
                       ClonedList(caller.prefs[p],
                                  IF Includes(caller.party.residents, p)
                                  THEN Range(caller.party.hospitals)
                                  ELSE Range(caller.party.residents))]
         g == HR_checkInputs([party |-> caller.party, prefs |-> cloned,
                              capacity |-> caller.capacity, clean |-> caller.options.clean])
     IN  IF \E p \in DOMAIN cloned : setPrefs_throws(cloned[p])
         THEN /\ pc' = "threw"
              /\ UNCHANGED <<party, prefs, originalPrefs, matching, capacity>>
         ELSE /\ pc' = "ready"
              /\ party' = g.party
              /\ prefs' = g.prefs
              /\ originalPrefs' = cloned
              /\ matching' = caller.matching
              /\ capacity' = g.capacity
  /\ UNCHANGED <<game, free, optimal, result, solved, iterations>>
  /\ caller' = CallerAfter(prefs', matching')
  /\ UNCHANGED <<blockingPairs, returned>>

SpecHRInput == HRInputInit /\ [][HRConstruct]_vars

\* C18: a HospitalResident game constructed with clean: true satisfies all
\* repaired invariants at once: every remaining resident and hospital has a
\* list without duplicates, of remaining members of the opposite party only,
\* reciprocated and non-empty, and every remaining hospital has capacity >= 1
C18_Repaired ==
  (game = "HR" /\ pc = "ready" /\ caller.options.clean) =>
    LET residents == party.residents
        hospitals == party.hospitals
    IN  /\ \A p \in Range(residents) \cup Range(hospitals) :
             /\ \A q \in Range(prefs[p]) : Count(prefs[p], q) = 1
             /\ Len(prefs[p]) > 0
        /\ \A r \in Range(residents) : \A q \in Range(prefs[r]) : Includes(hospitals, q)
        /\ \A h \in Range(hospitals) : \A q \in Range(prefs[h]) : Includes(residents, q)
        /\ \A r \in Range(residents), h \in Range(hospitals) :
             Includes(prefs[r], h) <=> Includes(prefs[h], r)
        /\ \A h \in Range(hospitals) : capacity[h] >= 1

\* C19: with clean mode off, construction from input with any recoverable
\* issue (duplicate rankings, a ranking of a non-member of the opposite party,
\* a non-reciprocated ranking, an empty list, a capacity below one) completes
\* without throwing and leaves party membership, preference lists and
\* capacities of the game's entities exactly as supplied
C19_CleanOffKeepsInput ==
  (pc # "new" /\ ~caller.options.clean) =>
    /\ pc = "ready"
    /\ party = caller.party
    /\ prefs = caller.prefs
    /\ capacity = caller.capacity

----------------------------------------------------------------------------
(* the StudentAllocation constructor on any input, clean mode on or off *)

\* supervisor.projects: filled by setSupervisor in the order of the projects
\* passed to the constructor, and never shortened afterwards
Supervisor_projects(v) ==
  SelectSeq(caller.party.projects, LAMBDA p : caller.party.supervisor[p] = v)

\* Supervisor._forget on the game g under construction
SAInput_Supervisor_forget(g, v, student) ==
  LET rankedByAnyProject ==
        \E k \in 1..Len(Supervisor_projects(v)) : Includes(g.prefs[Supervisor_projects(v)[k]], student)
  IN  IF Includes(g.prefs[v], student) /\ ~rankedByAnyProject
      THEN [g EXCEPT !.prefs[v] = Without(@, student)]
      ELSE g

\* Project._forget on the game g under construction
SAInput_Project_forget(g, project, student) ==
  IF Includes(g.prefs[project], student)
  THEN SAInput_Supervisor_forget([g EXCEPT !.prefs[project] = Without(@, student)],
                                 caller.party.supervisor[project], student)
  ELSE g

\* Player._forget on the game g under construction
SAInput_Player_forget(g, student, other) == [g EXCEPT !.prefs[student] = Without(@, other)]

\* for (const project of projects) project._forget(student)
RECURSIVE SAInput_forgetStudent(_, _, _)
SAInput_forgetStudent(g, projects, student) ==
  IF projects = <<>> THEN g
  ELSE SAInput_forgetStudent(SAInput_Project_forget(g, Head(projects), student), Tail(projects), student)

\* for (const student of students) student._forget(project)
SAInput_forgetProject(g, students, project) ==
  [g EXCEPT !.prefs = [x \in DOMAIN g.prefs |->
     IF Includes(students, x) THEN Without(g.prefs[x], project) ELSE g.prefs[x]]]

\* Supervisor.setPrefs: the supervisor's list, its original ranking, and the
\* list of each of its projects (the students of the list that rank the project)
Supervisor_setPrefs(g, v, students) ==
  [g EXCEPT !.prefs = [x \in DOMAIN g.prefs |->
                         IF x = v THEN students
                         ELSE IF Includes(Supervisor_projects(v), x)
                              THEN SelectSeq(students, LAMBDA student : Includes(g.prefs[student], x))
                              ELSE g.prefs[x]],
            !.originalPrefs[v] = students]

\* removePlayerSA of a project
removePlayerSA_project(g, project) ==
  SAInput_forgetProject([g EXCEPT !.party.projects = Without(@, project)], g.party.students, project)

\* removePlayerSA of each project of an array, in order
RECURSIVE removePlayerSA_projects(_, _)
removePlayerSA_projects(g, projects) ==
  IF projects = <<>> THEN g
  ELSE removePlayerSA_projects(removePlayerSA_project(g, Head(projects)), Tail(projects))

\* removePlayerSA
removePlayerSA(g, player, playerParty) ==
  IF playerParty = "supervisors"
  THEN removePlayerSA_projects([g EXCEPT !.party.supervisors = Without(@, player)],
                               Supervisor_projects(player))
  ELSE IF playerParty = "projects"
  THEN removePlayerSA_project(g, player)
  ELSE SAInput_forgetStudent([g EXCEPT !.party.students = Without(@, player)],
                             g.party.projects, player)

\* the array a check iterates for one player of its outer loop
SA_iterated(g, player, check) ==
  CASE check = "ReciprocatedAllPrefs(projects)" ->
         SelectSeq(g.party.students, LAMBDA student : Includes(g.prefs[student], player))
    [] check = "ReciprocatedAllPrefs(supervisors)" ->
         SelectSeq(g.party.students, LAMBDA student :
           \E k \in 1..Len(Supervisor_projects(player)) :
              Includes(g.prefs[student], Supervisor_projects(player)[k]))
    [] check = "CapacitiesSufficient" -> Supervisor_projects(player)
    [] OTHER -> g.prefs[player]

\* the test a check makes on one entry of the array it iterates
SA_warns(g, player, other, check) ==
  CASE check = "AllInParty(students)" -> ~Includes(g.party.projects, other)
    [] check = "AllInParty(supervisors)" -> ~Includes(g.party.students, other)
    [] check = "AllReciprocated(projects)" -> ~Includes(g.prefs[other], player)
    [] check = "AllReciprocated(supervisors)" ->
         \A k \in 1..Len(g.prefs[other]) : caller.party.supervisor[g.prefs[other][k]] # player
    [] check = "CapacitiesSufficient" -> g.capacity[other] > g.capacity[player]
    [] OTHER -> ~Includes(g.prefs[player], other)

\* the repair a check makes in clean mode for an entry that fails its test
SA_repair(g, player, other, check) ==
  CASE check = "AllInParty(students)" -> SAInput_Player_forget(g, player, other)
    [] check = "AllInParty(supervisors)" -> SAInput_Supervisor_forget(g, player, other)
    [] check = "AllReciprocated(projects)" -> SAInput_Project_forget(g, player, other)
    [] check = "AllReciprocated(supervisors)" ->
         SAInput_forgetStudent(g, Supervisor_projects(player), other)
    [] check = "ReciprocatedAllPrefs(projects)" -> SAInput_Player_forget(g, other, player)
    [] check = "ReciprocatedAllPrefs(supervisors)" ->
         [g EXCEPT !.prefs[other] = SelectSeq(@, LAMBDA project :
                                       ~Includes(Supervisor_projects(player), project))]
    [] OTHER -> [g EXCEPT !.capacity[other] = g.capacity[player]]

\* the inner loop of a check
RECURSIVE SA_inner(_, _, _, _)
SA_inner(g, player, others, check) ==
  IF others = <<>> THEN g
  ELSE SA_inner(IF SA_warns(g, player, Head(others), check) /\ g.clean
                THEN SA_repair(g, player, Head(others), check)
                ELSE g,
                player, Tail(others), check)

\* sum of the capacities of an array of projects
RECURSIVE totalProjectCapacity(_, _)
totalProjectCapacity(g, projects) ==
  IF projects = <<>> THEN 0
  ELSE g.capacity[Head(projects)] + totalProjectCapacity(g, Tail(projects))

\* the body of the outer loop of a check for one player
SA_body(g, player, side, check) ==
  CASE check = "Unique" ->
         IF ~g.clean THEN g
         ELSE IF side = "supervisors" THEN Supervisor_setPrefs(g, player, uniquePrefs(g.prefs[player]))
         ELSE [g EXCEPT !.prefs[player] = uniquePrefs(@)]
    [] check = "Nonempty" ->
         IF Len(g.prefs[player]) = 0 /\ g.clean THEN removePlayerSA(g, player, side) ELSE g
    [] check = "Capacity" ->
         IF g.capacity[player] < 1 /\ g.clean THEN removePlayerSA(g, player, side) ELSE g
    [] check = "CapacitiesNecessary" ->
         IF g.capacity[player] > totalProjectCapacity(g, Supervisor_projects(player)) /\ g.clean
         THEN [g EXCEPT !.capacity[player] = totalProjectCapacity(g, Supervisor_projects(player))]
         ELSE g
    [] OTHER -> SA_inner(g, player, SA_iterated(g, player, check), check)

\* the outer loop of a check over the array players
RECURSIVE SA_loop(_, _, _, _)
SA_loop(g, players, side, check) ==
  IF players = <<>> THEN g
  ELSE SA_loop(SA_body(g, Head(players), side, check), Tail(players), side, check)

\* one check of StudentAllocation.checkInputs over a party of the game
SA_check(g, side, check) == SA_loop(g, g.party[side], side, check)

\* StudentAllocation.checkInputs
SA_checkInputs(g) ==
  LET g01 == SA_check(g, "students", "Unique")
      g02 == SA_check(g01, "projects", "Unique")
      g03 == SA_check(g02, "supervisors", "Unique")
      g04 == SA_check(g03, "students", "AllInParty(students)")
      g05 == SA_check(g04, "students", "Nonempty")
      g06 == SA_check(g05, "supervisors", "AllInParty(supervisors)")
      g07 == SA_check(g06, "supervisors", "Nonempty")
      g08 == SA_check(g07, "projects", "AllReciprocated(projects)")
      g09 == SA_check(g08, "projects", "ReciprocatedAllPrefs(projects)")
      g10 == SA_check(g09, "projects", "Nonempty")
      g11 == SA_check(g10, "supervisors", "AllReciprocated(supervisors)")
      g12 == SA_check(g11, "supervisors", "ReciprocatedAllPrefs(supervisors)")
      g13 == SA_check(g12, "supervisors", "Nonempty")
      g14 == SA_check(g13, "projects", "Capacity")
      g15 == SA_check(g14, "supervisors", "Capacity")
      g16 == SA_check(g15, "supervisors", "CapacitiesSufficient")
  IN  SA_check(g16, "supervisors", "CapacitiesNecessary")

\* the list Supervisor.setPrefs passes on to a project: the students of the
\* supervisor's list that rank the project
SA_acceptable(students, pr, project) ==
  SelectSeq(students, LAMBDA student : student \in DOMAIN pr /\ Includes(pr[student], project))

\* the arguments of new StudentAllocation(students, projects, supervisors,
\* { clean }): the caller linked every project to a supervisor and set the
\* lists of the students, then of the supervisors; the largest student party
\* comes with one supervisor for all projects
SAInputInit ==
  /\ game = "SA"
  /\ \E n \in 1..Len(ProjectNames), k \in 1..Len(SupervisorNames) :
       LET ss == SubSeq(StudentNames, 1, n)
           vs == SubSeq(SupervisorNames, 1, IF n < Len(ProjectNames) THEN k ELSE 1)
           of == [p \in Range(ProjectNames) |->
                    vs[IF IndexOf(ProjectNames, p) + 1 < Len(vs) THEN IndexOf(ProjectNames, p) + 1 ELSE Len(vs)]]
       IN  \E pr \in Tables(ss \o vs, [x \in Range(ss) \cup Range(vs) |->
                        IF x \in Range(ss) THEN InputLists(ProjectNames) ELSE InputLists(ss)]),
              cap \in [Range(ProjectNames) \cup Range(vs) -> {0, 1, MaxCapacity}],
              clean \in BOOLEAN :
             caller = [Supplied([students |-> ss, projects |-> ProjectNames,
                                 supervisors |-> vs, supervisor |-> of],
                                [x \in Range(ss) \cup Range(vs) \cup Range(ProjectNames) |->
                                   IF x \in Range(ProjectNames)
                                   THEN SA_acceptable(pr[of[x]], pr, x) ELSE pr[x]],
                                [x \in Range(ss) \cup Range(vs) \cup Range(ProjectNames) |->
                                   IF x \in Range(ss) THEN NULL ELSE <<>>],
                                cap)
                       EXCEPT !.options.clean = clean]
  /\ party = <<>> /\ prefs = <<>> /\ originalPrefs = <<>> /\ matching = <<>>
  /\ capacity = <<>> /\ free = <<>> /\ optimal = NULL /\ pc = "new"
  /\ result = <<>> /\ solved = {} /\ iterations = 0
  /\ blockingPairs = <<>> /\ returned = <<>>

\* new StudentAllocation(students, projects, supervisors, options): the deep
\* copy, the lists of the clones, then checkInputs
SAConstruct ==
  /\ game = "SA" /\ pc = "new"
  /\ LET students == caller.party.students
         projects == caller.party.projects
         supervisors == caller.party.supervisors
         lists == [x \in Range(students) \cup Range(supervisors) |->
                     ClonedList(caller.prefs[x],
                                IF Includes(students, x) THEN Range(projects) ELSE Range(students))]
         cloned == [x \in DOMAIN caller.prefs |->
                      IF Includes(projects, x)
                      THEN SA_acceptable(lists[caller.party.supervisor[x]], lists, x)
                      ELSE lists[x]]
         g == SA_checkInputs([party |-> caller.party, prefs |-> cloned, originalPrefs |-> cloned,
                              capacity |-> caller.capacity, clean |-> caller.options.clean])
     IN  IF \E x \in DOMAIN lists : setPrefs_throws(lists[x])
         THEN /\ pc' = "threw"
              /\ UNCHANGED <<party, prefs, originalPrefs, matching, capacity>>
         ELSE /\ pc' = "ready"
              /\ party' = g.party
              /\ prefs' = g.prefs
              /\ originalPrefs' = g.originalPrefs
              /\ matching' = caller.matching
              /\ capacity' = g.capacity
  /\ UNCHANGED <<game, free, optimal, result, solved, iterations>>
  /\ caller' = CallerAfter(prefs', matching')
  /\ UNCHANGED <<blockingPairs, returned>>

SpecSAInput == SAInputInit /\ [][SAConstruct]_vars

\* the projects of supervisor v that remain in the game
SA_remainingProjects(v) == SelectSeq(party.projects, LAMBDA p : party.supervisor[p] = v)

\* sum of the capacities of an array of projects of the game
RECURSIVE SA_totalCapacity(_)
SA_totalCapacity(projects) ==
  IF projects = <<>> THEN 0 ELSE capacity[Head(projects)] + SA_totalCapacity(Tail(projects))

\* C20: in a StudentAllocation game constructed with clean: true, every
\* remaining project of every remaining supervisor v has capacity <= v.capacity,
\* and v.capacity <= the sum of the capacities of v's remaining projects
C20_CapacitiesRepaired ==
  (game = "SA" /\ pc = "ready" /\ caller.options.clean) =>
    \A v \in Range(party.supervisors) :
      /\ \A p \in Range(SA_remainingProjects(v)) : capacity[p] <= capacity[v]
      /\ capacity[v] <= SA_totalCapacity(SA_remainingProjects(v))

----------------------------------------------------------------------------
(* Hospital-Resident: checkValidity *)

\* HospitalResident.checkForUnacceptableMatches: the players of a party for
\* whom an issue is collected (an unmatched resident is not an issue)
HR_checkForUnacceptableMatches(side) ==
  IF side = "hospitals"
  THEN {h \in HRHospitals : Hospital_checkIfMatchIsUnacceptable(h)}
  ELSE {r \in HRResidents : checkIfMatchIsUnacceptable(r, TRUE)}

\* HospitalResident.checkForOversubscribedPlayers
HR_checkForOversubscribedPlayers == {h \in HRHospitals : Hospital_checkIfOversubscribed(h)}

\* HospitalResident.checkValidity: TRUE when it returns true, FALSE when it throws
HR_checkValidity ==
  /\ HR_checkForUnacceptableMatches("residents") = {}
  /\ HR_checkForUnacceptableMatches("hospitals") = {}
  /\ HR_checkForOversubscribedPlayers = {}

C21_WitnessResident ==
  /\ game = "HR" /\ pc = "done" /\ optimal = "resident"
  /\ \E r \in HRResidents : matching[r] = NULL /\ Len(originalPrefs[r]) > 0
  /\ HR_checkValidity

----------------------------------------------------------------------------
(* checkStability as a query *)

\* C22: on each of the four games a call of checkStability() after solve()
\* records the list of blocking pairs it found in blockingPairs and returns
\* true exactly when the recorded list is empty, so that a false result comes
\* with a recorded, non-empty list.
C22_Recorded ==
  returned # <<>> =>
    /\ blockingPairs # <<>>
    /\ returned[1] = (blockingPairs[1] = <<>>)

\* the same, for the three games other than Stable Roommates and for Stable
\* Roommates games whose matching has no null value
C22_RecordedWhenAllMatched ==
  (returned # <<>> /\ (game = "SR" => \A q \in SRPlayers : result[q] # NULL)) =>
    /\ blockingPairs # <<>>
    /\ returned[1] = (blockingPairs[1] = <<>>)

----------------------------------------------------------------------------
(* matchings: SingleMatching and MultipleMatching *)

\* the players a caller passes as the match of a player: the other party of
\* a Stable Marriage game, the other players of a Stable Roommates game
SingleMatching_values(player) ==
  IF game = "SR" THEN SRPlayers \ {player}
  ELSE IF Includes(party.suitors, player) THEN Range(party.reviewers)
  ELSE Range(party.suitors)

\* SingleMatching.set(player, newMatch) on the matching solve returned
SingleMatching_set ==
  /\ game \in {"SM", "SR"} /\ pc \in {"done", "set", "threw"}
  /\ \E player \in DOMAIN matching :
       \E newMatch \in SingleMatching_values(player) \cup {NULL} :
         IF player \notin DOMAIN result
         THEN /\ pc' = "threw"
              /\ UNCHANGED <<matching, result>>
         ELSE /\ matching' = [p \in DOMAIN matching |->
                                IF p = newMatch THEN player
                                ELSE IF p = player THEN newMatch
                                ELSE matching[p]]
              /\ result' = [result EXCEPT ![player] = newMatch]
              /\ pc' = "set"
  /\ UNCHANGED <<game, party, prefs, originalPrefs, capacity, free, optimal,
                 solved, iterations, blockingPairs, returned>>
  /\ caller' = CallerAfter(prefs', matching')

\* MultipleMatching.set(hospital, newMatches) on the matching solve returned
MultipleMatching_set ==
  /\ game = "HR" /\ pc \in {"done", "set", "threw"}
  /\ \E hospital \in DOMAIN matching :
       \E newMatches \in SubArrays(party.residents) :
         IF hospital \notin DOMAIN result
         THEN /\ pc' = "threw"
              /\ UNCHANGED <<matching, result>>
         ELSE /\ matching' = [p \in DOMAIN matching |->
                                IF Includes(newMatches, p) THEN hospital
                                ELSE IF p = hospital THEN newMatches
                                ELSE matching[p]]
              /\ result' = [result EXCEPT ![hospital] = newMatches]
              /\ pc' = "set"
  /\ UNCHANGED <<game, party, prefs, originalPrefs, capacity, free, optimal,
                 solved, iterations, blockingPairs, returned>>
  /\ caller' = CallerAfter(prefs', matching')

\* small games of the three classes that return these matchings
MatchingsInit ==
  \/ SMInit /\ Len(party.suitors) \in Thorough
  \/ SRInit /\ Len(party.players) \in Exhaustive
  \/ /\ HRInit
     /\ \A r \in HRResidents : Len(prefs[r]) = Len(party.hospitals)
     /\ \A h \in HRHospitals : prefs[h] = party.residents /\ capacity[h] = MaxCapacity

MatchingsNext == SMNext \/ SRNext \/ HRNext \/ SingleMatching_set \/ MultipleMatching_set

SpecMatchings == MatchingsInit /\ [][MatchingsNext]_vars

\* C23: after any sequence of set calls on the matching solve returned the
\* container and the entities agree in both directions. SingleMatching:
\* container[k] = v implies k.matching = v, v.matching = k and no other
\* player's matching points at k or v. MultipleMatching: container[h] = L
\* implies h.matching = L, every player of L has matching h, no player outside
\* L has matching h, and no player of L is in another hospital's match list.
C23_Consistent ==
  pc \in {"set", "threw"} =>
    /\ game \in {"SM", "SR"} =>
         \A k \in DOMAIN result :
           /\ matching[k] = result[k]
           /\ result[k] # NULL => matching[result[k]] = k
           /\ \A p \in DOMAIN matching \ {k, result[k]} :
                matching[p] # k /\ (result[k] # NULL => matching[p] # result[k])
    /\ game = "HR" =>
         \A h \in DOMAIN result :
           /\ matching[h] = result[h]
           /\ \A p \in HRResidents : Includes(result[h], p) <=> matching[p] = h
           /\ \A g \in HRHospitals \ {h}, p \in Range(result[h]) : ~Includes(matching[g], p)

\* a set on a player that is not a key throws and changes neither the
\* container nor any entity
C23_NonKeyThrows ==
  [][(pc \in {"done", "set", "threw"} /\ pc' = "threw") =>
       UNCHANGED <<result, matching, prefs, originalPrefs, capacity>>]_vars

----------------------------------------------------------------------------
(* players: the entity classes on their own *)

\* the entity the calls are made on: a Player, a Hospital, a Project (run by
\* supervisor U) or a Supervisor (running project P); `game` holds its class
Subject ==
  CASE game = "Player" -> "A"
    [] game = "Hospital" -> "X"
    [] game = "Project" -> "P"
    [] game = "Supervisor" -> "U"

\* the players the entity may rank and be matched to
Rankable == IF game = "Player" THEN {"P", "X"} ELSE {"A", "B"}

\* an entity whose _originalPrefs is null has no entry in originalPrefs
OriginalPrefsIsNull(op, e) == e \notin DOMAIN op

\* Player.setPrefs and Hospital.setPrefs (inherited by Project):
\* _originalPrefs is assigned only while it is null
Player_setPrefs(h, e, players) ==
  [h EXCEPT !.prefs[e] = players,
            !.originalPrefs = IF OriginalPrefsIsNull(@, e)
                              THEN [x \in DOMAIN @ \cup {e} |-> IF x = e THEN players ELSE @[x]]
                              ELSE @]

\* for (const project of this.projects) project.setPrefs(acceptable)
RECURSIVE Supervisor_setProjectPrefs(_, _, _)
Supervisor_setProjectPrefs(h, projects, students) ==
  IF projects = <<>> THEN h
  ELSE LET project == Head(projects)
           acceptable == SelectSeq(students, LAMBDA student : Includes(h.prefs[student], project))
       IN Supervisor_setProjectPrefs(Player_setPrefs(h, project, acceptable), Tail(projects), students)

\* Supervisor.setPrefs on the entity: _originalPrefs is assigned on every call
Supervisor_setOwnPrefs(h, v, students) ==
  Supervisor_setProjectPrefs(
    [h EXCEPT !.prefs[v] = students,
              !.originalPrefs = [x \in DOMAIN @ \cup {v} |-> IF x = v THEN students ELSE @[x]]],
    SA_projectsOf(v), students)

\* entity.setPrefs(players)
Entity_setPrefs ==
  /\ pc = "entity"
  /\ \E players \in Lists(Rankable, MaxList) :
       LET h == [prefs |-> prefs, originalPrefs |-> originalPrefs]
           h1 == IF game = "Supervisor" THEN Supervisor_setOwnPrefs(h, Subject, players)
                 ELSE Player_setPrefs(h, Subject, players)
       IN prefs' = h1.prefs /\ originalPrefs' = h1.originalPrefs
  /\ UNCHANGED <<game, party, matching, capacity, free, optimal, pc, result,
                 solved, iterations, blockingPairs, returned>>
  /\ caller' = CallerAfter(prefs', matching')

\* entity._forget(other)
Entity_forget ==
  /\ pc = "entity"
  /\ \E other \in Rankable :
       prefs' = CASE game = "Player" -> Player_forget(prefs, Subject, other)
                  [] game = "Hospital" -> Hospital_forget(prefs, Subject, other)
                  [] game = "Project" -> Project_forget(prefs, Subject, other)
                  [] game = "Supervisor" -> Supervisor_forget(prefs, Subject, other)
  /\ UNCHANGED <<game, party, originalPrefs, matching, capacity, free, optimal,
                 pc, result, solved, iterations, blockingPairs, returned>>
  /\ caller' = CallerAfter(prefs', matching')

\* entity._match(other); a match list is followed up to MaxCapacity members
Entity_match ==
  /\ pc = "entity"
  /\ game # "Player" => Len(matching[Subject]) < MaxCapacity
  /\ \E other \in Rankable :
       matching' = CASE game = "Player" -> Player_match(matching, Subject, other)
                     [] game = "Project" -> Project_match(matching, prefs, Subject, other)
                     [] OTHER -> Hospital_match(matching, prefs, Subject, other)
  /\ UNCHANGED <<game, party, prefs, originalPrefs, capacity, free, optimal,
                 pc, result, solved, iterations, blockingPairs, returned>>
  /\ caller' = CallerAfter(prefs', matching')

\* entity._unmatch() of a Player, entity._unmatch(other) of the other classes
Entity_unmatch ==
  /\ pc = "entity"
  /\ \E other \in Rankable :
       matching' = CASE game = "Player" -> Player_unmatch(matching, Subject)
                     [] game = "Project" -> Project_unmatch(matching, Subject, other)
                     [] OTHER -> Hospital_unmatch(matching, Subject, other)
  /\ UNCHANGED <<game, party, prefs, originalPrefs, capacity, free, optimal,
                 pc, result, solved, iterations, blockingPairs, returned>>
  /\ caller' = CallerAfter(prefs', matching')

\* an entity of each class whose list has not been set and on which _match
\* has been called (up to its capacity); the students a supervisor will rank
\* have their lists set already
EntitiesInit ==
  /\ game \in {"Player", "Hospital", "Project", "Supervisor"}
  /\ party = [students |-> <<"A", "B">>, hospitals |-> <<"X">>, projects |-> <<"P">>,
              supervisors |-> <<"U">>, supervisor |-> [P |-> "U"]]
  /\ \E sp \in [{"A", "B"} -> {<<>>, <<"P">>}] :
       /\ game # "Supervisor" => \A x \in DOMAIN sp : sp[x] = <<>>
       /\ prefs = [e \in {"A", "B", "X", "P", "U"} |-> IF e \in DOMAIN sp THEN sp[e] ELSE <<>>]
       /\ originalPrefs = IF game = "Supervisor" THEN sp ELSE <<>>
  /\ matching = [e \in {"A", "B", "X", "P", "U"} |->
                   IF e = Subject \/ (game = "Project" /\ e = "U")
                   THEN (IF game = "Player" THEN "P" ELSE <<"A", "B">>)
                   ELSE IF e \in {"A", "B"} THEN NULL ELSE <<>>]
  /\ capacity = [e \in {"X", "P", "U"} |-> MaxCapacity]
  /\ free = <<>> /\ optimal = NULL /\ pc = "entity"
  /\ result = <<>> /\ solved = {} /\ iterations = 0
  /\ caller = Supplied(party, prefs, matching, capacity)
  /\ blockingPairs = <<>> /\ returned = <<>>

EntitiesNext == Entity_setPrefs \/ Entity_forget \/ Entity_match \/ Entity_unmatch

SpecEntities == EntitiesInit /\ [][EntitiesNext]_vars

\* C24: for every entity class the first setPrefs call fixes _originalPrefs to
\* a copy of the list it is given, and no later setPrefs, _forget, _match or
\* _unmatch call changes _originalPrefs.
C24_OriginalPrefsFixed ==
  [][\A e \in DOMAIN originalPrefs' :
       IF OriginalPrefsIsNull(originalPrefs, e)
       THEN originalPrefs'[e] = prefs'[e]
       ELSE originalPrefs'[e] = originalPrefs[e]]_vars

\* the same, for the classes other than Supervisor
C24_OriginalPrefsFixedButSupervisor ==
  [][\A e \in DOMAIN originalPrefs' \ {"U"} :
       IF OriginalPrefsIsNull(originalPrefs, e)
       THEN originalPrefs'[e] = prefs'[e]
       ELSE originalPrefs'[e] = originalPrefs[e]]_vars

\* a is ranked in list and no b stands at or before a's first place
Precedes(list, a, b) ==
  \E i \in 1..Len(list) : list[i] = a /\ \A j \in 1..i : list[j] # b

\* C25: for an entity whose preferences have been set and two players a, b of
\* its original ranking, prefers(a, b) is true exactly when a precedes b in
\* the original ranking; prefers(a, a) is false; and no _forget call, of a or
\* b included, changes the result.
C25_Prefers ==
  /\ [](\A e \in DOMAIN originalPrefs : \A a, b \in Range(originalPrefs[e]) :
          /\ prefers(e, a, b) <=> Precedes(originalPrefs[e], a, b)
          /\ ~prefers(e, a, a))
  /\ [][(prefs' # prefs /\ originalPrefs' = originalPrefs) =>
          \A e \in DOMAIN originalPrefs : \A a, b \in Range(originalPrefs[e]) :
            prefers(e, a, b)' = prefers(e, a, b)]_vars

\* an entity has forgotten a player it ranked ahead of another one
C25_Witness ==
  /\ pc = "entity" /\ Subject \in DOMAIN originalPrefs
  /\ \E a, b \in Range(originalPrefs[Subject]) :
       /\ a # b
       /\ prefs[Subject] = Without(originalPrefs[Subject], a)
       /\ prefers(Subject, a, b)

----------------------------------------------------------------------------
(* Stable Marriage: the steps of the loop *)

\* the proposer and the reviewer of the iteration about to run
SM_suitor == free[Len(free)]
SM_reviewer == getFavourite(prefs, SM_suitor)

\* C26: in a StableMarriage solve on a valid instance, whenever a reviewer R
\* holding match M is proposed to by P, R prefers P to M in its original
\* ranking, so the partners a reviewer holds strictly improve; the step
\* removes R from M's list and M from R's, and no list gains a player during
\* the loop, so an evicted proposer never proposes to R again.
C26_AcceptanceImproves ==
  [][(game = "SM" /\ pc = "loop" /\ pc' = "loop" /\ Len(free) > 0) =>
       /\ matching[SM_reviewer] # NULL =>
            /\ prefers(SM_reviewer, SM_suitor, matching[SM_reviewer])
            /\ ~Includes(prefs'[matching[SM_reviewer]], SM_reviewer)
            /\ ~Includes(prefs'[SM_reviewer], matching[SM_reviewer])
            /\ matching'[matching[SM_reviewer]] = NULL
       /\ \A r \in SMPlayers :
            /\ (matching[r] # NULL /\ matching'[r] # matching[r]) =>
                 \/ matching'[r] = NULL
                 \/ prefers(r, matching'[r], matching[r])
            /\ Range(prefs'[r]) \subseteq Range(prefs[r])
       /\ matching'[SM_reviewer] = SM_suitor]_vars

\* an evicted proposer is back on top of the worklist, its first choice
\* holding a partner it prefers
C26_Witness ==
  /\ game = "SM" /\ pc = "loop" /\ Len(free) > 0 /\ Len(party.suitors) = 3
  /\ SM_suitor # SM_proposers(optimal)[Len(free)]
  /\ matching[SM_suitor] = NULL
  /\ ~Includes(prefs[SM_suitor], originalPrefs[SM_suitor][1])
  /\ prefers(originalPrefs[SM_suitor][1], matching[originalPrefs[SM_suitor][1]], SM_suitor)

----------------------------------------------------------------------------
(* Hospital-Resident: the steps of residentOptimal *)

\* the resident and the hospital of the iteration about to run
HR_resident == free[Len(free)]
HR_hospital == getFavourite(prefs, HR_resident)
HR_worst == Hospital_getWorstMatch(matching, HR_hospital)

\* C27: in resident-optimal HospitalResident on a valid instance, whenever a
\* hospital at capacity evicts its worst match W to admit the proposing
\* resident P, the hospital prefers P to W; after the step W is unmatched,
\* W no longer has the hospital in its list nor the hospital W, and no list
\* gains a player during the loop, so W never proposes to the hospital again.
C27_EvictionImproves ==
  [][(game = "HR" /\ pc = "loop" /\ pc' = "loop" /\ optimal = "resident" /\ Len(free) > 0) =>
       /\ (Len(prefs[HR_resident]) > 0 /\ HR_atCapacity(matching, HR_hospital)) =>
            /\ prefers(HR_hospital, HR_resident, HR_worst)
            /\ \A i \in 1..Len(matching[HR_hospital]) :
                 ~prefers(HR_hospital, HR_worst, matching[HR_hospital][i])
            /\ ~Includes(prefs'[HR_worst], HR_hospital)
            /\ ~Includes(prefs'[HR_hospital], HR_worst)
            /\ matching'[HR_worst] = NULL
            /\ ~Includes(matching'[HR_hospital], HR_worst)
            /\ Includes(matching'[HR_hospital], HR_resident)
            /\ matching'[HR_resident] = HR_hospital
       /\ \A p \in DOMAIN prefs : Range(prefs'[p]) \subseteq Range(prefs[p])]_vars

\* an evicted resident is back on top of the worklist: a hospital it ranked
\* is full of residents the hospital prefers and is gone from its list
C27_Witness ==
  /\ game = "HR" /\ pc = "loop" /\ optimal = "resident" /\ Len(free) > 0
  /\ HR_resident # party.residents[Len(free)]
  /\ matching[HR_resident] = NULL
  /\ \E h \in Range(originalPrefs[HR_resident]) :
       /\ ~Includes(prefs[HR_resident], h)
       /\ Len(matching[h]) = capacity[h]
       /\ \A i \in 1..Len(matching[h]) : prefers(h, matching[h][i], HR_resident)

----------------------------------------------------------------------------
(* Stable Marriage: termination *)

\* the number of entries of all preference lists
RECURSIVE SM_totalPrefs(_, _)
SM_totalPrefs(pr, players) ==
  IF players = {} THEN 0
  ELSE LET p == CHOOSE q \in players : TRUE
       IN Len(pr[p]) + SM_totalPrefs(pr, players \ {p})

\* the loop runs whenever the worklist is not empty, and solve returns when
\* it is: a call, once made, is carried through by the caller's thread. The
\* games are those of up to two a side and the three-a-side games in which
\* the first suitor and the first reviewer rank in array order.
SMFairInit ==
  /\ SMInit
  /\ \/ Len(party.suitors) \in Thorough
     \/ /\ prefs[party.suitors[1]] = party.reviewers
        /\ prefs[party.reviewers[1]] = party.suitors

SpecSMFair == SMFairInit /\ [][SMNext]_vars /\ WF_vars(SMStep) /\ WF_vars(SMReturn)

\* C28: a StableMarriage solve on a valid instance of size n terminates: the
\* total number of preference-list entries never increases, every iteration
\* that displaces a held partner strictly decreases it, every other iteration
\* shrinks the worklist by one, and the loop runs at most n*n iterations.
C28_Terminates ==
  /\ [][(game = "SM" /\ pc = "loop" /\ Len(free) > 0) =>
          /\ pc' = "loop"
          /\ iterations' = iterations + 1
          /\ SM_totalPrefs(prefs', SMPlayers) <= SM_totalPrefs(prefs, SMPlayers)
          /\ IF matching[SM_reviewer] # NULL
             THEN /\ SM_totalPrefs(prefs', SMPlayers) < SM_totalPrefs(prefs, SMPlayers)
                  /\ Len(free') = Len(free)
             ELSE Len(free') = Len(free) - 1]_vars
  /\ []((game = "SM" /\ pc \in {"loop", "done"}) =>
          iterations <= Len(party.suitors) * Len(party.suitors))
  /\ ((game = "SM" /\ pc = "loop") ~> (pc = "done"))

\* a three-a-side solve has ended after more iterations than proposers: some
\* held partner was displaced
C28_Witness ==
  /\ game = "SM" /\ pc = "done" /\ Len(party.suitors) = 3
  /\ iterations > Len(party.suitors) + 2

----------------------------------------------------------------------------
(* Hospital-Resident and Student Allocation: termination *)

\* the Hospital-Resident games: all of them up to the exhaustive party size,
\* and of the larger ones those in which every resident ranks every hospital
\* and the first hospital ranks the residents in array order
HRFairInit ==
  /\ HRInit
  /\ \/ Len(party.residents) \in Exhaustive
     \/ /\ \A r \in HRResidents : Len(prefs[r]) = Len(party.hospitals)
        /\ prefs[party.hospitals[1]] = party.residents

\* the games of the two classes with reciprocated lists
CapacitatedFairInit ==
  \/ HRFairInit
  \/ /\ SAInit /\ SA_valid
     /\ Len(party.students) \in Thorough
     /\ \A c \in DOMAIN capacity : capacity[c] \in Thorough

\* a solve that was called runs on: each loop iterates while its worklist is
\* not empty and solve returns when the loop ends
SolveRuns ==
  \/ HRResidentStep \/ HRHospitalStep \/ HRReturn
  \/ SAStudentStep \/ SASupervisorStep \/ SAReturn

SpecCapacitatedFair ==
  CapacitatedFairInit /\ [][HRSolve \/ SASolve \/ SolveRuns]_vars /\ WF_vars(SolveRuns)

\* C29: on every HospitalResident and StudentAllocation instance with
\* reciprocated lists and capacities of at least 1, a solve in either
\* direction terminates, and no preference list ever gains an entry.
C29_Terminates ==
  /\ [][pc # "done" =>
          \A p \in DOMAIN prefs :
            /\ Len(prefs'[p]) <= Len(prefs[p])
            /\ Range(prefs'[p]) \subseteq Range(prefs[p])]_vars
  /\ [](pc # "threw" /\ iterations < MaxIterations)
  /\ ((pc \in {"loop", "studentOptimal", "supervisorOptimal"}) ~> (pc = "done"))

\* a supervisor-optimal solve and a hospital-optimal solve have ended with
\* shortened lists
C29_Witness ==
  /\ pc = "done" /\ optimal \in {"hospital", "supervisor"}
  /\ \E p \in DOMAIN prefs : Len(prefs[p]) < Len(originalPrefs[p])
  /\ iterations > 2

----------------------------------------------------------------------------
(* the order of the worklist *)

\* the worklist with its i-th entry moved to the end, where pop() takes it
MoveToTop(fr, i) == Append(SubSeq(fr, 1, i - 1) \o SubSeq(fr, i + 1, Len(fr)), fr[i])

\* a run that takes an arbitrary free proposer next instead of the one added
\* last: before an iteration of stableMarriage or of residentOptimal any
\* entry of the worklist is brought to its end
Reorder ==
  /\ pc = "loop" /\ Len(free) > 1
  /\ game = "SM" \/ (game = "HR" /\ optimal = "resident")
  /\ \E i \in 1..(Len(free) - 1) : free' = MoveToTop(free, i)
  /\ UNCHANGED <<game, party, prefs, originalPrefs, matching, capacity, optimal,
                 pc, result, solved, iterations, blockingPairs, returned>>
  /\ caller' = CallerAfter(prefs', matching')

AnyOrderInit == (SMFairInit /\ Len(party.suitors) \in Exhaustive) \/ HRFairInit

AnyOrderNext == SMNext \/ HRNext \/ Reorder

SpecAnyOrder == AnyOrderInit /\ [][AnyOrderNext]_vars

\* C30: the final matching of StableMarriage and of resident-optimal
\* HospitalResident does not depend on the order of the worklist: of two
\* games built from the same input and solved for the same side, each taking
\* the free proposers in an arbitrary order (the order of the code included),
\* the second returns the matching of the first and leaves every entity with
\* the same match.
C30_OrderIndependent ==
  (pc = "done" /\ (game = "SM" \/ optimal = "resident")) =>
    \A g \in solved :
      g.optimal = optimal => (g.result = result /\ g.matching = matching)

\* in a second three-a-side game solved for the same side as the first, the
\* first iteration took a proposer other than the last of the array
C30_Witness ==
  /\ pc = "loop" /\ game = "SM" /\ Len(party.suitors) = 3
  /\ iterations = 1 /\ Len(free) = 2
  /\ free # SubSeq(SM_proposers(optimal), 1, 2)
  /\ \E g \in solved : g.optimal = optimal

----------------------------------------------------------------------------
(* Student Allocation: the three levels of the matching *)

\* StudentAllocation.checkValidity: TRUE when it returns true, FALSE when it throws
SA_checkValidity ==
  /\ \A s \in SAStudents : ~checkIfMatchIsUnacceptable(s, TRUE)
  /\ \A x \in SAProjects \cup SASupervisors : ~Hospital_checkIfMatchIsUnacceptable(x)
  /\ \A x \in SAProjects \cup SASupervisors : ~Hospital_checkIfOversubscribed(x)

\* the students held by the projects of supervisor v
SA_heldFor(v) == {s \in SAStudents : matching[s] # NULL /\ party.supervisor[matching[s]] = v}

\* the sum of the lengths of the match lists of the projects
RECURSIVE SA_matchCount(_)
SA_matchCount(projects) ==
  IF projects = <<>> THEN 0 ELSE Len(matching[Head(projects)]) + SA_matchCount(Tail(projects))

\* C31: at every loop-iteration boundary of studentOptimal and
\* supervisorOptimal on a valid instance the three levels agree: a student's
\* match is p exactly when the student is in p's match list, no student is
\* twice in a list or in two projects' lists, and a supervisor's match list
\* holds exactly the students matched to its projects, once each, so its
\* length is the sum of the lengths of its projects' lists; after solve in
\* either direction checkValidity() returns true.
C31_LevelsAgree ==
  (game = "SA" /\ SA_valid /\ pc \in {"studentOptimal", "supervisorOptimal", "done"}) =>
    /\ \A s \in SAStudents, p \in SAProjects : (matching[s] = p) <=> Includes(matching[p], s)
    /\ \A s \in SAStudents :
         /\ \A x \in SAProjects \cup SASupervisors : Count(matching[x], s) <= 1
         /\ Cardinality({p \in SAProjects : Includes(matching[p], s)}) <= 1
    /\ \A v \in SASupervisors :
         /\ Range(matching[v]) = SA_heldFor(v)
         /\ Len(matching[v]) = SA_matchCount(SA_projectsOf(v))
    /\ pc = "done" => SA_checkValidity

\* a supervisor-level eviction took the student out of a project other than
\* the one just filled: after two iterations on two students the first
\* student holds a project the second never ranked, the second, who had
\* proposed to its own first choice under the same supervisor, holds nothing
\* and is in no match list
C31_Witness ==
  /\ game = "SA" /\ SA_valid /\ pc = "studentOptimal"
  /\ Len(party.students) = 2 /\ iterations = 2
  /\ LET first == party.students[1]
         second == party.students[2]
     IN /\ matching[first] # NULL
        /\ originalPrefs[second] # <<>>
        /\ ~Includes(originalPrefs[second], matching[first])
        /\ party.supervisor[originalPrefs[second][1]] = party.supervisor[matching[first]]
        /\ matching[second] = NULL
        /\ \A x \in SAProjects \cup SASupervisors : ~Includes(matching[x], second)

\* C32: in student-optimal StudentAllocation on a valid instance, at every
\* loop-iteration boundary and at the return: when a supervisor holds exactly
\* as many matches as its capacity, no student it ranks after its worst match
\* (the last of its match list) keeps any of its projects in prefs, and none of
\* its projects keeps such a student; when a project holds exactly as many
\* matches as its capacity, no student it ranks after its worst match is left
\* in its prefs.
C32_SuccessorsDeleted ==
  (game = "SA" /\ SA_valid /\ optimal = "student" /\ pc \in {"studentOptimal", "done"}) =>
    /\ \A v \in SASupervisors : Len(matching[v]) = capacity[v] =>
         \A s \in SAStudents : Rank(v, s) > Rank(v, Hospital_getWorstMatch(matching, v)) =>
           \A p \in SAProjects : party.supervisor[p] = v =>
             ~Includes(prefs[s], p) /\ ~Includes(prefs[p], s)
    /\ \A p \in SAProjects : Len(matching[p]) = capacity[p] =>
         \A s \in SAStudents : Rank(p, s) > Rank(p, Hospital_getWorstMatch(matching, p)) =>
           ~Includes(prefs[p], s)

\* a supervisor of two projects is full, neither of its projects is, and a
\* student it ranks after its worst match, who had ranked both projects, has
\* lost both and is left with an empty list
C32_Witness ==
  /\ game = "SA" /\ SA_valid /\ pc = "studentOptimal"
  /\ \E v \in SASupervisors, s \in SAStudents :
       /\ Len(matching[v]) = capacity[v]
       /\ Len(SA_projectsOf(v)) = 2
       /\ \A p \in SAProjects : Len(matching[p]) < capacity[p]
       /\ Rank(v, s) > Rank(v, Hospital_getWorstMatch(matching, v))
       /\ Len(originalPrefs[s]) = 2
       /\ prefs[s] = <<>>

----------------------------------------------------------------------------
(* Stable Roommates: the returned matching and the reduced table *)

\* no player ranks another twice
SR_duplicateFree == \A p \in SRPlayers : \A q \in SRPlayers : Count(originalPrefs[p], q) <= 1

\* C33: when StableRoommates solve() returns, either every player has at most
\* one remaining preference or some player's list is empty; every player with
\* exactly one remaining preference is matched to that player, and every
\* player with an empty list is matched to null, in the entities and in the
\* returned map.
C33_FinalMatching ==
  (game = "SR" /\ pc = "done") =>
    /\ \/ \A p \in SRPlayers : Len(prefs[p]) <= 1
       \/ \E p \in SRPlayers : Len(prefs[p]) = 0
    /\ \A p \in SRPlayers :
         /\ Len(prefs[p]) = 1 => (matching[p] = prefs[p][1] /\ result[p] = prefs[p][1])
         /\ Len(prefs[p]) = 0 => (matching[p] = NULL /\ result[p] = NULL)

\* the same on instances without a repeated entry
C33_FinalMatchingDuplicateFree == SR_duplicateFree => C33_FinalMatching

----------------------------------------------------------------------------
(* the capacitated games together *)

\* the instances of the two games: every one of the small sizes, a sample of
\* the larger ones
CapacitatedInit ==
  \/ HRFairInit
  \/ SAInit /\ Len(party.students) \in Thorough /\ \A c \in DOMAIN capacity : capacity[c] \in Thorough

\* the steps of the two solvers
CapacitatedNext == HRSolve \/ HRResidentStep \/ HRHospitalStep \/ HRReturn \/ SANext

SpecCapacitated == CapacitatedInit /\ [][CapacitatedNext]_vars

\* the entities that hold a match list: hospitals, projects and supervisors
Capacitated == DOMAIN capacity

C34_WitnessSupervisor ==
  /\ game = "SA" /\ pc = "studentOptimal" /\ iterations = 2
  /\ \E v \in SASupervisors :
       /\ matching[v] = party.students /\ Len(matching[v]) = 2
       /\ \A p \in SAProjects : Len(matching[p]) = 1

----------------------------------------------------------------------------
(* the four engines together *)

\* the instance is valid for its game: lists without repeated entries in
\* Stable Roommates, reciprocated lists in Student Allocation (SMInit and
\* HRInit give valid instances only)
ValidInstance ==
  /\ game = "SR" => SR_duplicateFree
  /\ game = "SA" => SA_valid

\* the instances of the four games: every one of the small sizes, and of the
\* larger sizes those in which the first player ranks in the order of the array
EnginesInit ==
  \/ SMFairInit /\ Len(party.suitors) \in Exhaustive
  \/ HRFairInit
  \/ SRInit /\ (Len(party.players) - 1 \in Exhaustive
                \/ prefs[party.players[1]] = Tail(party.players))
  \/ SAInit /\ Len(party.students) \in Thorough /\ \A c \in DOMAIN capacity : capacity[c] \in Thorough

\* the steps of the four solvers
EnginesNext ==
  \/ SMSolve \/ SMStep \/ SMReturn
  \/ HRSolve \/ HRResidentStep \/ HRHospitalStep \/ HRReturn
  \/ SRNext
  \/ SANext

SpecEngines == EnginesInit /\ [][EnginesNext]_vars

\* list s is list t with some entries left out, the others in their order
IsSubsequence(s, t) == s = SelectSeq(t, LAMBDA x : Includes(s, x))

\* C35: throughout any solve of the four engines on a valid instance every
\* entity's prefs is its original ranking with some entries left out and the
\* others in their order, every current match of an entity is an element of
\* its original ranking, and no step of a solve adds an entry to a list.
C35_DeletionOnly ==
  /\ [](ValidInstance =>
          \A e \in DOMAIN prefs :
            /\ IsSubsequence(prefs[e], originalPrefs[e])
            /\ IF e \in DOMAIN capacity
               THEN \A i \in 1..Len(matching[e]) : Includes(originalPrefs[e], matching[e][i])
               ELSE matching[e] # NULL => Includes(originalPrefs[e], matching[e]))
  /\ [][ValidInstance =>
          \A e \in DOMAIN prefs :
            /\ Len(prefs'[e]) <= Len(prefs[e])
            /\ IsSubsequence(prefs'[e], prefs[e])]_vars

\* in the middle of a solve a matched entity has lost an entry that was not
\* the last of its list: what is left is no prefix of the original ranking
C35_Witness ==
  /\ ValidInstance
  /\ pc \in {"loop", "phase1", "phase2", "studentOptimal", "supervisorOptimal"}
  /\ \E e \in DOMAIN prefs :
       /\ IF e \in DOMAIN capacity THEN matching[e] # <<>> ELSE matching[e] # NULL
       /\ Len(prefs[e]) > 0
       /\ prefs[e] # SubSeq(originalPrefs[e], 1, Len(prefs[e]))

----------------------------------------------------------------------------
(* StableMarriage: solve() called again on the same game *)

\* solve(o) on a game that has been solved, up to the first loop test of
\* stableMarriage: the players keep the lists and the matches the first solve
\* left them with, and this.matching keeps the first Map until the call returns
SMSolveAgain ==
  /\ game = "SM" /\ pc = "done" /\ solved = {}
  /\ solved' = {[optimal |-> optimal, result |-> result, matching |-> matching]}
  /\ \E o \in {"suitor", "reviewer"} :
       /\ optimal' = o
       /\ free' = SM_proposers(o)
  /\ pc' = "loop"
  /\ iterations' = 0
  /\ UNCHANGED <<game, party, prefs, originalPrefs, matching, capacity, result>>
  /\ caller' = CallerAfter(prefs', matching')
  /\ UNCHANGED <<blockingPairs, returned>>

SMAgainNext == SMSolve \/ SMStep \/ SMReturn \/ SMSolveAgain

\* the loop of stableMarriage runs while it can and returns when it ends; a
\* caller need not call solve a second time
SpecSMAgain == SMFairInit /\ [][SMAgainNext]_vars /\ WF_vars(SMStep) /\ WF_vars(SMReturn)

\* C36: solve() called again on a solved StableMarriage game, for the same or
\* the opposite side, terminates, within the n*n iterations of a first solve,
\* and again returns a perfect matching without a blocking pair.
C36_SolvesAgain ==
  /\ [](solved # {} =>
          /\ pc # "threw"
          /\ iterations <= Len(party.suitors) * Len(party.suitors)
          /\ pc = "done" =>
               /\ \A p \in SMPlayers : matching[p] # NULL /\ matching[matching[p]] = p
               /\ \A s \in Range(party.suitors) : result[s] = matching[s]
               /\ SM_stable(matching))
  /\ ((solved # {} /\ pc = "loop") ~> (pc = "done"))

\* a second call never returns: it is still in the loop or it has thrown
C36_SecondCallNeverReturns == solved # {} => pc \in {"loop", "threw"}

\* every iteration of a second call for the same side pops a proposer, takes
\* it from the partner it holds, gives it the same partner again and pushes it
\* back: nothing but the count of iterations changes
C36_SameSideRepeats ==
  [][(solved # {} /\ pc = "loop" /\ \A g \in solved : g.optimal = optimal) =>
       (pc' = "loop" /\ prefs' = prefs /\ matching' = matching /\ free' = free)]_vars

\* a second call has made more iterations than a first solve can
C36_Overrun == solved # {} /\ pc = "loop" /\ iterations > Len(party.suitors) * Len(party.suitors)

\* the first and the last entry of a player's list
SR_first(x) == prefs[x][1]
SR_last(x) == prefs[x][Len(prefs[x])]

\* the table is reduced: every player with a non-empty list is the last entry
\* of its first choice's list, and the first choice of nobody else's last entry
SR_reduced ==
  \A x \in SRPlayers : Len(prefs[x]) > 0 =>
    /\ Len(prefs[SR_first(x)]) > 0
    /\ SR_last(SR_first(x)) = x
    /\ \A y \in SRPlayers : (y = SR_first(x)) <=> (Len(prefs[y]) > 0 /\ x = SR_last(y))

\* C37: when phase 1 of StableRoommates has ended, and after every rotation
\* elimination of phase 2 that empties no list, the table is reduced (y is the
\* first choice of x exactly when x is the last entry of y); a player with
\* more than one entry then has a second choice whose last entry also has
\* more than one entry, and the rotation traced from the player secondPhase
\* picks is not empty.
C37_Reduced ==
  (game = "SR" /\ pc \in {"phase2", "return"}) =>
    /\ (pc = "phase2" \/ \A x \in SRPlayers : Len(prefs[x]) > 0) => SR_reduced
    /\ pc = "phase2" =>
         /\ \A x \in SRPlayers : Len(prefs[x]) > 1 =>
              /\ Len(prefs[prefs[x][2]]) > 0
              /\ Len(prefs[SR_last(prefs[x][2])]) > 1
         /\ SR_findPlayer(prefs) # NULL =>
              locateAllOrNothingCycle(prefs, SR_findPlayer(prefs)) # <<>>

\* the same on instances without a repeated entry
C37_ReducedDuplicateFree == SR_duplicateFree => C37_Reduced

----------------------------------------------------------------------------
(* the loop invariants of the worklists *)

\* C38: at every loop-iteration boundary of a first StableMarriage solve the
\* worklist holds exactly the proposers whose matching is null, each once;
\* every proposer's prefs is non-empty, so getFavourite() is never called on
\* an empty list; and every matched proposer's partner is the head of the
\* proposer's prefs, is matched to the proposer and has the proposer as the
\* last entry of its prefs.
C38_Worklist ==
  (game = "SM" /\ pc = "loop") =>
    /\ Range(free) = {p \in Range(SM_proposers(optimal)) : matching[p] = NULL}
    /\ \A p \in Range(SM_proposers(optimal)) :
         /\ Count(free, p) <= 1
         /\ Len(prefs[p]) > 0
         /\ matching[p] # NULL =>
              /\ prefs[p][1] = matching[p]
              /\ matching[matching[p]] = p
              /\ Len(prefs[matching[p]]) > 0
              /\ prefs[matching[p]][Len(prefs[matching[p]])] = p

\* in a three-a-side solve a displaced proposer is back on the worklist, with
\* a shorter list, next to a proposer that has not proposed yet, while the
\* third holds a partner
C38_Witness ==
  /\ game = "SM" /\ pc = "loop" /\ Len(party.suitors) = 3
  /\ Len(free) = 2
  /\ Len(prefs[free[2]]) < Len(originalPrefs[free[2]])
  /\ prefs[free[1]] = originalPrefs[free[1]]
  /\ \E p \in Range(SM_proposers(optimal)) : matching[p] # NULL

\* C39: at every loop-iteration boundary of residentOptimal and of
\* hospitalOptimal a resident's match is h exactly when the resident is in h's
\* match list, and no resident is twice in a list or in two hospitals' lists;
\* in residentOptimal the worklist holds unmatched residents only, none
\* twice, and every unmatched resident with a non-empty list; in
\* hospitalOptimal the worklist holds no hospital twice and only hospitals
\* with fewer matches than their capacity.
C39_Worklist ==
  (game = "HR" /\ pc = "loop") =>
    /\ \A r \in HRResidents, h \in HRHospitals : (matching[r] = h) <=> Includes(matching[h], r)
    /\ \A r \in HRResidents :
         /\ \A h \in HRHospitals : Count(matching[h], r) <= 1
         /\ Cardinality({h \in HRHospitals : Includes(matching[h], r)}) <= 1
    /\ \A x \in Range(free) : Count(free, x) = 1
    /\ HR_direction(optimal) = "residentOptimal" =>
         /\ Range(free) \subseteq {r \in HRResidents : matching[r] = NULL}
         /\ \A r \in HRResidents : (matching[r] = NULL /\ Len(prefs[r]) > 0) => Includes(free, r)
    /\ HR_direction(optimal) = "hospitalOptimal" =>
         /\ Range(free) \subseteq HRHospitals
         /\ \A h \in Range(free) : Len(matching[h]) < capacity[h]

\* in hospitalOptimal a hospital that lost a resident to another hospital is
\* back on the worklist, behind a hospital that holds a resident and still
\* has room
C39_Witness ==
  /\ game = "HR" /\ pc = "loop" /\ HR_direction(optimal) = "hospitalOptimal"
  /\ Len(free) = 2 /\ iterations > 1
  /\ free[1] = party.hospitals[Len(party.hospitals)]
  /\ Len(prefs[free[1]]) < Len(originalPrefs[free[1]])
  /\ Len(matching[free[2]]) > 0

\* in residentOptimal an evicted resident is back on the worklist and another
\* resident, unmatched with an empty list, is not on it
C39_WitnessResident ==
  /\ game = "HR" /\ pc = "loop" /\ HR_direction(optimal) = "residentOptimal"
  /\ Len(free) > 0
  /\ Len(prefs[free[Len(free)]]) < Len(originalPrefs[free[Len(free)]])
  /\ \E r \in HRResidents : matching[r] = NULL /\ prefs[r] = <<>> /\ originalPrefs[r] # <<>> /\ ~Includes(free, r)

\* C40: throughout any StableMarriage, StableRoommates or HospitalResident
\* solve on a valid instance the preference lists stay mutual: at every
\* loop-iteration boundary, before the first and after the last, x is in the
\* prefs of y exactly when y is in the prefs of x.
C40_Mutual ==
  (game \in {"SM", "SR", "HR"} /\ ValidInstance) =>
    \A x, y \in DOMAIN prefs : Includes(prefs[x], y) <=> Includes(prefs[y], x)

\* in the middle of a solve a pair has been deleted: two players who ranked
\* each other have both lost the other, and both still have entries left
C40_Witness ==
  /\ game \in {"SM", "SR", "HR"} /\ ValidInstance
  /\ pc \in {"loop", "phase1", "phase2"}
  /\ \E x, y \in DOMAIN prefs :
       /\ Includes(originalPrefs[x], y) /\ Includes(originalPrefs[y], x)
       /\ ~Includes(prefs[x], y) /\ ~Includes(prefs[y], x)
       /\ prefs[x] # <<>> /\ prefs[y] # <<>>

====
